---------------------------- MODULE Spec2Model ----------------------------
(***************************************************************************)
(* A model of eth_videoz.py: the bounded task runner                       *)
(* (gather_with_concurrency), the resumable transfer (download_file) and   *)
(* the orchestration of main(), the per-item download and the             *)
(* classification of the series.  The specifications of the module:        *)
(*   SpecGather   - one call of gather_with_concurrency                    *)
(*   SpecDownload - calls of download_file against one remote file         *)
(*   SpecMain     - one run of main() over a configuration of series       *)
(*   SpecMedia    - one call of download_video_subtitles_and_maybe_audio   *)
(*   SpecClassify - the classification loop of main with get_series_type   *)
(*   SpecBatch    - one run of main() over one series of many entries      *)
(*   SpecEthLogin - one call of login_eth                                  *)
(*   SpecProtected - the logins of one Protected series                    *)
(*   SpecStartup  - the start of main(), up to the end of classification   *)
(*   SpecCounter  - concurrent calls of SharedCounter.increment            *)
(*   SpecProbe    - SpecMedia with --get-size: the sizes are only summed   *)
(* Each specification moves only its own variables; the others stay at     *)
(* their idle values.                                                      *)
(***************************************************************************)
EXTENDS Integers, Sequences, FiniteSets, TLC

(***************************************************************************)
(* Bounds of the model (not program constants).                            *)
(***************************************************************************)
MaxTasks == 3
MaxCap == 2
MaxT == 3        \* longest remote file, in bytes
MaxErr == 2      \* longest body of an error response, in bytes
MaxCalls == 2    \* calls of download_file in one behaviour
MaxChunk == 2    \* most bytes iter_chunked delivers at once (source: 1024)
MaxSeries == 2   \* series in the urls file
MaxItems == 2    \* entries of one series
MaxSubs == 2     \* configured subtitle languages (args.subtitles)
MaxBatch == 11   \* entries of the series of SpecBatch
MaxUrl == 4      \* longest landing url, in pieces
MaxIncs == 3     \* concurrent calls of SharedCounter.increment
MaxN == 2        \* largest n given to increment
MaxSize == 2     \* largest size of a remote file of the size probe

VARIABLES
    \* ---- gather_with_concurrency ----
    gN,          \* n, the capacity given to the call
    gM,          \* number of coroutines given to the call
    gpc,         \* position of every sem_coro task
    semValue,    \* semaphore._value
    semWaiters,  \* semaphore._waiters (FIFO of futures, one per blocked task)
    outcome,     \* what each task's future holds once the task is done
    doneOrder,   \* the tasks in the order they completed
    gReturned,   \* the gather call has returned
    gResults,    \* the list it returned
    \* ---- download_file ----
    remote,      \* the bytes of the remote file (T = Len(remote))
    fexists,     \* os.path.exists(abspath)
    fdata,       \* the bytes of the destination file
    dpc,         \* position of the call of download_file
    dCalls,      \* calls made so far
    srv,         \* how the server treats this call's request
    start_byte,  \* start_byte
    rangeSent,   \* "Range" in headers
    resp,        \* the response: status, Content-Length, Content-Range, body
    total_size,  \* total_size
    mode,        \* mode the destination was opened with
    rest,        \* the part of the body not yet delivered by iter_chunked
    dOpened,     \* this call opened the destination for writing
    dWrites,     \* f.write calls of this call
    f0exists,    \* the destination when the call began
    f0data,
    \* ---- main ----
    nSeries,     \* len(series_urls)
    page,        \* per series: what the first video page shows
    username,    \* per series: series["username"] / series["password"]
    nitems,      \* per series: len(entries), 0 while not read
    mpc,         \* position of main()
    classIdx,    \* index of the classification loop
    login_type,  \* per series: series["login_type"]
    open_series,
    protected_series,
    eth_series,
    eth_success,
    pl,          \* per series: position of login_protected_first_video
    protected_series_logged_in,
    pos,         \* index of the series loop of the current phase
    cur,         \* the series being processed, 0 if none
    stage,       \* which gather of the series is running
    ist,         \* per entry: position of its task in the running gather
    videos_data, \* series["videos_data"]: per entry, a dict or an exception
    userPrompts, \* input("Username: ") calls so far
    pwPrompts,   \* getpass.getpass() calls so far
    ethLoginRuns,   \* calls of login_eth
    protLoginRuns,  \* per series: calls of login_protected
    started,     \* history: <<phase, series>> whose processing began
    finished,    \* history: <<phase, series>> whose transfers all ended
    raisedAt,    \* where the exception that left main was raised, or "-"
    refetched    \* history: series whose metadata was fetched again (1655)

\* download_video_subtitles_and_maybe_audio
VARIABLES
    video_sources,    \* media_metadata["video_sources"]: the qualities it has
    audio_sources,    \* media_metadata["audio_sources"]: the formats it has
    subtitle_sources, \* media_metadata["subtitle_sources"]: its languages
    video_quality,    \* args.video_quality
    audio_quality,    \* args.audio_quality
    subtitles,        \* args.subtitles, a list of languages
    get_size,         \* the size probe or the transfer
    vpc,              \* position in the function
    media_url,
    subIdx,           \* index of the loop `for subtitle in subtitles`
    calls,            \* the requests made so far, in order
    callFailed        \* a request raised

\* the classification loop of main and get_series_type
VARIABLES
    cN,          \* number of series
    cIdx,        \* index of the loop `for series in series_videos_data`
    cTypes,      \* per series: series["login_type"]
    cpc,         \* position in the loop and in get_series_type
    cShows,      \* the controls the page of the first entry ever shows
    visible,     \* the controls that are visible now
    wtask,       \* the two wait_for tasks of wait_for_either_button
    cResult,     \* the value get_series_type is about to return
    cPageOpen,   \* the page of get_series_type is open
    counter,     \* SharedCounter.value, the clicks counted so far
    cPages,      \* context.new_page calls so far
    cNavs        \* page.goto calls so far

\* login_eth
VARIABLES
    epc,           \* position in login_eth
    eArgUser,      \* args.username is given
    eStdin,        \* args.password_from_stdin
    eUrl,          \* page.url once the browser has landed
    eUSERNAME,     \* the local USERNAME: "unbound" or what it holds
    ePASSWORD,     \* the local PASSWORD: "unbound" or what it holds
    eResult,       \* the value login_eth returned, "-" before
    eUserPrompts,  \* input("Username: ") calls
    ePwPrompts     \* getpass.getpass() calls

\* one Protected series: login_protected_first_video, then its entries
VARIABLES
    pUsername,     \* series["username"]: "None", "config", "typed" or ""
    pPassword,     \* series["password"], likewise
    pEthSuccess,   \* eth_success is truthy
    pEntries,      \* number of entries of the series
    pStage,        \* "login", "download", "done" or "raised"
    pCall,         \* per call of login_protected (0: the first video page,
                   \* i: process_entry of entry i): its position
    pPASSWORD,     \* per call: the local PASSWORD, "unbound" or its value
    pAccepted,     \* per call: did the portal accept what was submitted
    pUserPrompts,  \* input("Username: ") calls
    pPwPrompts     \* getpass.getpass() calls

\* the start of main, up to the end of the classification loop
VARIABLES
    spc,           \* position in main
    sCfgFile,      \* ~/.config/eth-videoz/urls is a file
    sCwdFile,      \* ./urls is a file
    sCfgUrls,      \* url lines in ~/.config/eth-videoz/urls
    sCwdUrls,      \* url lines in ./urls
    sMissing,      \* there was no urls file when main began
    quick_add,     \* args.quick_add: "None", "valid" or "invalid"
    series_urls,   \* len(series_urls)
    sMeta,         \* per series: what the metadata gather holds for it
    sIdx,          \* index of the loop `for series in series_videos_data`
    sClassified,   \* the series get_series_type was called on
    sFetches,      \* calls of graphql_append_json_metadata so far
    sLog,          \* the log.error messages so far
    sEnd           \* where the run ended before its time, "-" if not

\* SharedCounter
VARIABLES
    kCalls,        \* number of increment calls
    kN,            \* per call: its n
    kpc,           \* per call: its position in increment
    value,         \* self.value
    kLocked,       \* self.lock is held
    kWaiters,      \* the calls waiting for self.lock, in order
    kShown         \* what display wrote last

\* download_video_subtitles_and_maybe_audio: sizes and the file system
VARIABLES
    remote_size,   \* the size of the remote files: of the media file and of
                   \* the subtitle of each language
    filesize,      \* the local filesize
    made,          \* os.makedirs was called
    headers,       \* Content-Range total and Content-Length of the response
                   \* get_remote_file_size got last, -1 for a header not sent
    probed,        \* what get_remote_file_size returned last, -1 before
    exact          \* history: every size returned so far was the size of
                   \* the file asked for

varsG == <<gN, gM, gpc, semValue, semWaiters, outcome, doneOrder, gReturned,
           gResults>>

varsD == <<remote, fexists, fdata, dpc, dCalls, srv, start_byte, rangeSent,
           resp, total_size, mode, rest, dOpened, dWrites, f0exists, f0data>>

varsM == <<nSeries, page, username, nitems, mpc,
           classIdx, login_type, open_series, protected_series, eth_series,
           eth_success, pl, protected_series_logged_in, pos, cur, stage, ist,
           videos_data, userPrompts, pwPrompts, ethLoginRuns, protLoginRuns,
           started, finished, raisedAt, refetched>>

varsV == <<video_sources, audio_sources, subtitle_sources, video_quality,
           audio_quality, subtitles, get_size, vpc, media_url, subIdx, calls,
           callFailed>>

varsC == <<cN, cIdx, cTypes, cpc, cShows, visible, wtask, cResult, cPageOpen,
           counter, cPages, cNavs>>

varsE == <<epc, eArgUser, eStdin, eUrl, eUSERNAME, ePASSWORD, eResult,
           eUserPrompts, ePwPrompts>>

varsP == <<pUsername, pPassword, pEthSuccess, pEntries, pStage, pCall,
           pPASSWORD, pAccepted, pUserPrompts, pPwPrompts>>

varsS == <<spc, sCfgFile, sCwdFile, sCfgUrls, sCwdUrls, sMissing, quick_add,
           series_urls, sMeta, sIdx, sClassified, sFetches, sLog, sEnd>>

varsK == <<kCalls, kN, kpc, value, kLocked, kWaiters, kShown>>

varsF == <<remote_size, filesize, made, headers, probed, exact>>

vars == <<varsG, varsD, varsM, varsV, varsC, varsE, varsP, varsS, varsK, varsF>>

OthersG == <<varsD, varsM, varsV, varsC, varsE, varsP, varsS, varsK, varsF>>
OthersD == <<varsG, varsM, varsV, varsC, varsE, varsP, varsS, varsK, varsF>>
OthersM == <<varsG, varsD, varsV, varsC, varsE, varsP, varsS, varsK, varsF>>
OthersV == <<varsG, varsD, varsM, varsC, varsE, varsP, varsS, varsK>>
OthersC == <<varsG, varsD, varsM, varsV, varsE, varsP, varsS, varsK, varsF>>
OthersE == <<varsG, varsD, varsM, varsV, varsC, varsP, varsS, varsK, varsF>>
OthersP == <<varsG, varsD, varsM, varsV, varsC, varsE, varsS, varsK, varsF>>
OthersS == <<varsG, varsD, varsM, varsV, varsC, varsE, varsP, varsK, varsF>>
OthersK == <<varsG, varsD, varsM, varsV, varsC, varsE, varsP, varsS, varsF>>

(***************************************************************************)
(* Helpers                                                                 *)
(***************************************************************************)
RECURSIVE RemoveFirst(_, _)
RemoveFirst(s, x) ==
    IF s = <<>> THEN <<>>
    ELSE IF Head(s) = x THEN Tail(s)
    ELSE <<Head(s)>> \o RemoveFirst(Tail(s), x)

(***************************************************************************)
(* gather_with_concurrency (eth_videoz.py 1142-1161) over                   *)
(* asyncio.Semaphore and asyncio.gather(return_exceptions=True).           *)
(***************************************************************************)
GTasks == 1..gM

\* semaphore = asyncio.Semaphore(n)
SemInitMutant(n) == n + 1
SemInit(n) == n

\* async with semaphore: the slot is given back on exit, whether the awaited
\* coroutine returned or raised
ReleaseOnExitMutant(ok) == ok
ReleaseOnExit(ok) == TRUE

\* asyncio.gather builds its result list from the children in input order
ResultAtMutant(k) == outcome[doneOrder[k]]
ResultAt(k) == outcome[k]

\* Semaphore.locked()
SemLocked == semValue = 0 \/ semWaiters # <<>>

\* the first waiter whose future is not done yet, 0 if none
RECURSIVE FirstPending(_)
FirstPending(w) ==
    IF w = <<>> THEN 0
    ELSE IF gpc[Head(w)] = "waiting" THEN Head(w)
    ELSE FirstPending(Tail(w))

\* first step of sem_coro(i): Semaphore.acquire().  The event loop runs the
\* first steps of the tasks in the order gather created them.
GStart(i) ==
    /\ gpc[i] = "created"
    /\ \A j \in 1..(i - 1) : gpc[j] # "created"
    /\ IF ~SemLocked
       THEN /\ semValue' = semValue - 1
            /\ gpc' = [gpc EXCEPT ![i] = "running"]
            /\ UNCHANGED semWaiters
       ELSE /\ semWaiters' = Append(semWaiters, i)
            /\ gpc' = [gpc EXCEPT ![i] = "waiting"]
            /\ UNCHANGED semValue
    /\ UNCHANGED <<gN, gM, outcome, doneOrder, gReturned, gResults>>
    /\ UNCHANGED OthersG

\* a blocked acquire() resumes after release() set its future: it leaves the
\* waiters' queue, passes a spare slot on (if self._value > 0:
\* self._wake_up_next()) and enters the body of the async with
GWake(i) ==
    /\ gpc[i] = "woken"
    /\ LET w == RemoveFirst(semWaiters, i)
           nxt == IF semValue > 0 THEN FirstPending(w) ELSE 0
       IN /\ semWaiters' = w
          /\ semValue' = IF nxt # 0 THEN semValue - 1 ELSE semValue
          /\ gpc' = [j \in 1..gM |->
                        IF j = i THEN "running"
                        ELSE IF j = nxt THEN "woken"
                        ELSE gpc[j]]
    /\ UNCHANGED <<gN, gM, outcome, doneOrder, gReturned, gResults>>
    /\ UNCHANGED OthersG

\* the awaited coroutine of task i ends (ok: returned, ~ok: raised); the
\* async with exits: Semaphore.release(), then _wake_up_next()
GFinish(i, ok) ==
    /\ gpc[i] = "running"
    /\ outcome' = [outcome EXCEPT
                      ![i] = [kind |-> IF ok THEN "value" ELSE "error",
                              of |-> i]]
    /\ doneOrder' = Append(doneOrder, i)
    /\ LET nxt == IF ReleaseOnExit(ok) THEN FirstPending(semWaiters) ELSE 0
       IN /\ semValue' = IF ReleaseOnExit(ok) /\ nxt = 0
                         THEN semValue + 1 ELSE semValue
          /\ gpc' = [j \in 1..gM |->
                        IF j = i THEN "done"
                        ELSE IF j = nxt THEN "woken"
                        ELSE gpc[j]]
    /\ UNCHANGED <<gN, gM, semWaiters, gReturned, gResults>>
    /\ UNCHANGED OthersG

\* asyncio.gather(..., return_exceptions=True) resolves once every child is
\* done, with one entry per child
GReturn ==
    /\ ~gReturned
    /\ \A i \in GTasks : gpc[i] = "done"
    /\ gReturned' = TRUE
    /\ gResults' = [k \in 1..gM |-> ResultAt(k)]
    /\ UNCHANGED <<gN, gM, gpc, semValue, semWaiters, outcome, doneOrder>>
    /\ UNCHANGED OthersG

NextG ==
    \/ \E i \in GTasks : GStart(i)
    \/ \E i \in GTasks : GWake(i)
    \/ \E i \in GTasks, ok \in BOOLEAN : GFinish(i, ok)
    \/ GReturn

(***************************************************************************)
(* download_file (eth_videoz.py 850-950)                                    *)
(***************************************************************************)
Bytes == {0, 1}
SeqsUpTo(S, n) == UNION {[1..k -> S] : k \in 0..n}

IsPrefix(p, q) == Len(p) <= Len(q) /\ SubSeq(q, 1, Len(p)) = p

\* the body of an error response: e bytes of an error page, none of them a
\* byte of the file
ErrBody(e) == [i \in 1..e |-> 2]

ServerKinds == {"ranges", "ignore", "empty206", "error", "nolength"}

NoResponse == [status |-> 0, cl |-> -1, cr |-> -1, body |-> <<>>]

\* The responses a server of the given kind may give to the GET of a call
\* whose destination holds L bytes (Range: bytes=L- is sent iff L > 0).
\* cl / cr: the Content-Length and the total after the slash of
\* Content-Range, -1 when the header is absent.
\*   ranges   - honours byte ranges: 200 with the whole file without a Range
\*              header, 206 with the tail for L < T, 416 for L >= T
\*   ignore   - ignores the Range header: 200 with the whole file
\*   empty206 - as ranges, but answers an out-of-range request with an empty
\*              206
\*   error    - any other status, with an error page as body
\*   nolength - 200 with the whole file and no Content-Length (chunked)
Responses(kind, L) ==
    LET T == Len(remote)
        full == {[status |-> 200, cl |-> T, cr |-> -1, body |-> remote]}
        part == {[status |-> 206, cl |-> T - L, cr |-> T,
                  body |-> SubSeq(remote, L + 1, T)]}
    IN CASE kind = "ranges" ->
              IF L = 0 THEN full
              ELSE IF L < T THEN part
              ELSE {[status |-> 416, cl |-> e, cr |-> c, body |-> ErrBody(e)] :
                       e \in 0..MaxErr, c \in {-1, T}}
         [] kind = "ignore" -> full
         [] kind = "empty206" ->
              IF L = 0 THEN full
              ELSE IF L < T THEN part
              ELSE {[status |-> 206, cl |-> 0, cr |-> -1, body |-> <<>>]}
         [] kind = "error" ->
              UNION {{[status |-> st, cl |-> c, cr |-> -1,
                       body |-> ErrBody(e)] :
                         st \in {404, 500}, c \in {-1, e}} :
                     e \in 0..MaxErr}
         [] kind = "nolength" ->
              {[status |-> 200, cl |-> -1, cr |-> -1, body |-> remote]}

\* int(response.headers.get("Content-Length", 0))
ContentLength(r) == IF r.cl >= 0 THEN r.cl ELSE 0

\* if start_byte >= total_size: return
AlreadyCompleteMutant(sb, ts) == sb > ts
AlreadyComplete(sb, ts) == sb >= ts

\* response.raise_for_status()
RaisesForStatus(st) == st >= 400

\* mode = "ab" if start_byte > 0 else "wb"
OpenModeMutant(sb) == "wb"
OpenMode(sb) == IF sb > 0 THEN "ab" ELSE "wb"

\* lines 860-881: the size of the destination, the Range header, the GET and
\* the arrival of the response
DCall ==
    /\ dpc \in {"idle", "returned", "raised"}
    /\ dCalls < MaxCalls
    /\ dCalls' = dCalls + 1
    /\ LET sb == IF fexists THEN Len(fdata) ELSE 0
       IN /\ start_byte' = sb
          /\ rangeSent' = (sb > 0)
          /\ \E k \in ServerKinds :
                /\ srv' = k
                /\ resp' \in Responses(k, sb)
    /\ f0exists' = fexists
    /\ f0data' = fdata
    /\ total_size' = 0
    /\ mode' = "none"
    /\ rest' = <<>>
    /\ dOpened' = FALSE
    /\ dWrites' = 0
    /\ dpc' = "responded"
    /\ UNCHANGED <<remote, fexists, fdata>>
    /\ UNCHANGED OthersD

\* lines 888-945: the checks on the response, in the order of the code, and
\* the opening of the destination
DEvaluate ==
    /\ dpc = "responded"
    /\ LET ts == ContentLength(resp)
       IN IF AlreadyComplete(start_byte, ts) \/ resp.status = 416
          THEN /\ dpc' = "returned"
               /\ total_size' = ts
               /\ UNCHANGED <<fexists, fdata, mode, rest, dOpened>>
          ELSE IF RaisesForStatus(resp.status)
          THEN /\ dpc' = "raised"
               /\ total_size' = ts
               /\ UNCHANGED <<fexists, fdata, mode, rest, dOpened>>
          ELSE /\ total_size' = IF resp.cr >= 0 THEN resp.cr ELSE ts
               /\ mode' = OpenMode(start_byte)
               /\ dOpened' = TRUE
               /\ fexists' = TRUE
               /\ fdata' = IF OpenMode(start_byte) = "wb" THEN <<>> ELSE fdata
               /\ rest' = resp.body
               /\ dpc' = "streaming"
    /\ UNCHANGED <<remote, dCalls, srv, start_byte, rangeSent, resp, dWrites,
                   f0exists, f0data>>
    /\ UNCHANGED OthersD

\* lines 946-948: iter_chunked delivers up to MaxChunk bytes, which are
\* written to the destination
DChunk(k) ==
    /\ dpc = "streaming"
    /\ k <= Len(rest)
    /\ fdata' = fdata \o SubSeq(rest, 1, k)
    /\ rest' = SubSeq(rest, k + 1, Len(rest))
    /\ dWrites' = dWrites + 1
    /\ UNCHANGED <<remote, fexists, dpc, dCalls, srv, start_byte, rangeSent,
                   resp, total_size, mode, dOpened, f0exists, f0data>>
    /\ UNCHANGED OthersD

\* the body ended: the file and the session are closed, the call returns
DFinish ==
    /\ dpc = "streaming"
    /\ rest = <<>>
    /\ dpc' = "returned"
    /\ UNCHANGED <<remote, fexists, fdata, dCalls, srv, start_byte, rangeSent,
                   resp, total_size, mode, rest, dOpened, dWrites, f0exists,
                   f0data>>
    /\ UNCHANGED OthersD

\* the connection breaks or the run is interrupted while the body streams:
\* the exception leaves download_file, the chunks written stay in the file
DInterrupt ==
    /\ dpc = "streaming"
    /\ rest # <<>>
    /\ dpc' = "raised"
    /\ UNCHANGED <<remote, fexists, fdata, dCalls, srv, start_byte, rangeSent,
                   resp, total_size, mode, rest, dOpened, dWrites, f0exists,
                   f0data>>
    /\ UNCHANGED OthersD

NextD ==
    \/ DCall
    \/ DEvaluate
    \/ \E k \in 1..MaxChunk : DChunk(k)
    \/ DFinish
    \/ DInterrupt



(***************************************************************************)
(* main (eth_videoz.py 1517-1711): classification, buckets, the Open       *)
(* phase, login_eth, the Protected logins and downloads, the Eth phase.    *)
(***************************************************************************)
Series == 1..nSeries

\* what the first video page of a series shows to get_series_type
Pages == {"notallowed", "download", "verify", "neither"}

\* capacities of the gather_with_concurrency calls of main and
\* download_protected_videos
FetchCap == 10
ProbeCap == 10
TransferCap == 5
LoginCap == 10

CapMutant(st) ==
    CASE st = "fetch" -> FetchCap + 1
      [] st = "probe" -> ProbeCap + 1
      [] st = "transfer" -> TransferCap + 1
Cap(st) ==
    CASE st = "fetch" -> FetchCap
      [] st = "probe" -> ProbeCap
      [] st = "transfer" -> TransferCap

\* get_series_type (484-537): "eth" for a NotAllowed entry, else by the
\* control that is visible after the wait for either button
GetSeriesType(pg) ==
    IF pg = "notallowed" THEN "eth"
    ELSE IF pg = "download" THEN "open"
    ELSE IF pg = "verify" THEN "protected"
    ELSE "none"

\* lines 1542-1548: if == "open": open_series; if == "protected":
\* protected_series; else: eth_series
InOpenBucket(t) == t = "open"
InProtectedBucket(t) == t = "protected"
InEthBucket(t) == t # "protected"

RECURSIVE AscSeq(_)
AscSeq(S) ==
    IF S = {} THEN <<>>
    ELSE LET m == CHOOSE x \in S : \A y \in S : x <= y
         IN <<m>> \o AscSeq(S \ {m})

Phase ==
    CASE mpc = "open_loop" -> "open"
      [] mpc = "prot_dl" -> "prot"
      [] mpc = "eth_loop" -> "eth"
      [] OTHER -> "none"

\* the list the current series loop runs over
CurList ==
    CASE mpc = "open_loop" -> open_series
      [] mpc = "prot_dl" ->
            [k \in 1..Len(protected_series_logged_in) |->
                protected_series_logged_in[k].s]
      [] mpc = "eth_loop" -> eth_series
      [] OTHER -> <<>>

\* process_entry(..., protected_without_eth_login): False by default; True
\* only in download_protected_videos when main found `not eth_success`
LoginPerItemMutant(ph) == ph \in {"open", "prot"} /\ eth_success # "True"
LoginPerItem(ph) == ph = "prot" /\ eth_success # "True"

InFlight == {i \in DOMAIN ist : ist[i] \in {"run", "login"}}

Terminal(f) == \A x \in DOMAIN f : f[x] \in {"ok", "err"}

\* login_protected 752-761: ask for what the series does not hold, and cache
AfterPrompt(u) == IF u = "config" THEN "config" ELSE "typed"
Prompts(u) == IF u = "none" THEN 1 ELSE 0

\* lines 1517-1533, one turn of the loop: the first video page of the series
\* shows pg, the urls file holds credentials for it or not (u), and
\* get_series_type returns (ok) or raises out of main (page.goto failed)
MClassify(pg, u, ok) ==
    /\ mpc = "classify"
    /\ classIdx <= nSeries
    /\ u = "config" => pg = "verify"
    /\ ~ok => pg # "notallowed"
    /\ page' = [page EXCEPT ![classIdx] = pg]
    /\ username' = [username EXCEPT ![classIdx] = u]
    /\ IF ok
       THEN /\ login_type' = [login_type EXCEPT ![classIdx] = GetSeriesType(pg)]
            /\ classIdx' = classIdx + 1
            /\ UNCHANGED <<mpc, raisedAt>>
       ELSE /\ mpc' = "crashed"
            /\ raisedAt' = "get_series_type"
            /\ UNCHANGED <<login_type, classIdx>>
    /\ UNCHANGED <<nSeries, nitems, open_series,
                   protected_series, eth_series, eth_success, pl,
                   protected_series_logged_in, pos, cur, stage, ist,
                   videos_data, userPrompts, pwPrompts, ethLoginRuns,
                   protLoginRuns, started, finished,
                   refetched>>
    /\ UNCHANGED OthersM

\* the loop `for series in series_videos_data` (1517) has run over every
\* series before line 1539 is reached
ClassificationOverMutant == classIdx > 1
ClassificationOver == classIdx > nSeries

\* lines 1539-1548: the three lists
MBucket ==
    /\ mpc = "classify"
    /\ ClassificationOver
    /\ open_series' = AscSeq({s \in Series : InOpenBucket(login_type[s])})
    /\ protected_series' =
          AscSeq({s \in Series : InProtectedBucket(login_type[s])})
    /\ eth_series' = AscSeq({s \in Series : InEthBucket(login_type[s])})
    /\ mpc' = "open_loop"
    /\ pos' = 1
    /\ UNCHANGED <<nSeries, page, username, nitems, classIdx, login_type,
                   eth_success, pl,
                   protected_series_logged_in, cur, stage, ist, videos_data,
                   userPrompts, pwPrompts, ethLoginRuns, protLoginRuns,
                   started, finished, raisedAt,
                   refetched>>
    /\ UNCHANGED OthersM

\* lines 1655-1659: only the Eth loop fetches the metadata of the series
\* again before it builds the process_entry tasks
RefetchesMutant(ph) == ph = "none"
Refetches(ph) == ph = "eth"

\* the head of one turn of a series loop (1554-1558, 1089-1094, 1650-1667):
\* the entries of the series (n of them) and the list of process_entry
\* tasks.  In download_protected_videos an exception object that passed the
\* `if x` filter fails at series["graphql"]; in the Eth loop the metadata is
\* fetched again and that request may fail; both leave main by an exception.
MBeginSeries(n, ok) ==
    /\ mpc \in {"open_loop", "prot_dl", "eth_loop"}
    /\ stage = "none"
    /\ pos <= Len(CurList)
    /\ LET s == CurList[pos]
       IN /\ nitems[s] # 0 => n = nitems[s]
          /\ mpc = "open_loop" => ok
          /\ mpc = "prot_dl" => (ok <=> ~protected_series_logged_in[pos].exc)
          /\ IF ok
             THEN /\ cur' = s
                  /\ stage' = "fetch"
                  /\ ist' = [i \in 1..n |-> "todo"]
                  /\ nitems' = [nitems EXCEPT ![s] = n]
                  /\ started' = started \cup {<<Phase, s>>}
                  /\ refetched' = IF Refetches(Phase)
                                  THEN refetched \cup {s} ELSE refetched
                  /\ UNCHANGED <<mpc, raisedAt>>
             ELSE /\ mpc' = "crashed"
                  /\ raisedAt' = IF mpc = "prot_dl"
                                 THEN "download_protected_videos"
                                 ELSE "graphql_append_json_metadata"
                  /\ UNCHANGED <<cur, stage, ist, nitems, started, refetched>>
    /\ UNCHANGED <<nSeries, page, username, classIdx,
                   login_type, open_series, protected_series, eth_series,
                   eth_success, pl, protected_series_logged_in, pos,
                   videos_data, userPrompts, pwPrompts, ethLoginRuns,
                   protLoginRuns, finished>>
    /\ UNCHANGED OthersM

\* a task of the running gather_with_concurrency gets a slot and starts:
\* process_entry opens its page, or download_video_subtitles_and_maybe_audio
\* sends its request
MItemStart(i) ==
    /\ stage # "none"
    /\ i \in DOMAIN ist
    /\ ist[i] = "todo"
    /\ \A j \in 1..(i - 1) : ist[j] # "todo"
    /\ Cardinality(InFlight) < Cap(stage)
    /\ ist' = [ist EXCEPT ![i] = "run"]
    /\ UNCHANGED <<nSeries, page, username, nitems, mpc, classIdx, login_type,
                   open_series, protected_series,
                   eth_series, eth_success, pl, protected_series_logged_in,
                   pos, cur, stage, videos_data, userPrompts, pwPrompts,
                   ethLoginRuns, protLoginRuns, started, finished, raisedAt,
                   refetched>>
    /\ UNCHANGED OthersM

\* process_entry 564-576: with protected_without_eth_login the entry's page
\* logs in before its links are read
MItemLogin(i) ==
    /\ stage = "fetch"
    /\ i \in DOMAIN ist
    /\ ist[i] = "run"
    /\ LoginPerItem(Phase)
    /\ ist' = [ist EXCEPT ![i] = "login"]
    /\ protLoginRuns' = [protLoginRuns EXCEPT ![cur] = @ + 1]
    /\ userPrompts' = userPrompts + Prompts(username[cur])
    /\ pwPrompts' = pwPrompts + Prompts(username[cur])
    /\ username' = [username EXCEPT ![cur] = AfterPrompt(@)]
    /\ UNCHANGED <<nSeries, page, nitems, mpc,
                   classIdx, login_type, open_series, protected_series,
                   eth_series, eth_success, pl, protected_series_logged_in,
                   pos, cur, stage, videos_data, ethLoginRuns, started,
                   finished, raisedAt,
                   refetched>>
    /\ UNCHANGED OthersM

\* a task of the running gather ends, by a result (ok) or by an exception
\* that gather captures.  An entry whose videos_data is an exception fails
\* in download_video_subtitles_and_maybe_audio at media_metadata.get.
MItemFinish(i, ok) ==
    /\ stage # "none"
    /\ i \in DOMAIN ist
    /\ ist[i] \in {"run", "login"}
    /\ (stage = "fetch" /\ LoginPerItem(Phase) /\ ist[i] = "run") => ~ok
    /\ (stage \in {"probe", "transfer"} /\ videos_data[i] = "err") => ~ok
    /\ ist' = [ist EXCEPT ![i] = IF ok THEN "ok" ELSE "err"]
    /\ UNCHANGED <<nSeries, page, username, nitems, mpc, classIdx, login_type,
                   open_series, protected_series,
                   eth_series, eth_success, pl, protected_series_logged_in,
                   pos, cur, stage, videos_data, userPrompts, pwPrompts,
                   ethLoginRuns, protLoginRuns, started, finished, raisedAt,
                   refetched>>
    /\ UNCHANGED OthersM

\* what main does with the list a gather returned: series["videos_data"] is
\* stored as it is (1560), the sizes go through sum(filesizes) (1572, 1114,
\* 1682), which raises on an exception object, and the results of the
\* transfers are dropped (1590, 1129, 1699)
ResultsRaiseMutant(st, results) ==
    st \in {"probe", "transfer"} /\ \E i \in DOMAIN results : results[i] = "err"
ResultsRaise(st, results) ==
    st = "probe" /\ \E i \in DOMAIN results : results[i] = "err"

\* the running gather returns: after the fetch the results become
\* series["videos_data"]; after the size probe sum(filesizes) raises out of
\* main if a result is an exception; after the transfers the loop moves on
MStageEnd ==
    /\ stage # "none"
    /\ Terminal(ist)
    /\ IF ResultsRaise(stage, ist)
       THEN /\ mpc' = "crashed"
            /\ raisedAt' = "sum"
            /\ UNCHANGED <<videos_data, stage, ist, pos, cur, finished>>
       ELSE /\ UNCHANGED raisedAt
            /\ CASE stage = "fetch" ->
                      /\ videos_data' = ist
                      /\ stage' = "probe"
                      /\ ist' = [i \in DOMAIN ist |-> "todo"]
                      /\ UNCHANGED <<mpc, pos, cur, finished>>
                 [] stage = "probe" ->
                      /\ stage' = "transfer"
                      /\ ist' = [i \in DOMAIN ist |-> "todo"]
                      /\ UNCHANGED <<videos_data, mpc, pos, cur, finished>>
                 [] stage = "transfer" ->
                      /\ stage' = "none"
                      /\ ist' = <<>>
                      /\ videos_data' = <<>>
                      /\ cur' = 0
                      /\ pos' = pos + 1
                      /\ finished' = finished \cup {<<Phase, cur>>}
                      /\ UNCHANGED mpc
    /\ UNCHANGED <<nSeries, page, username, nitems, classIdx, login_type,
                   open_series, protected_series,
                   eth_series, eth_success, pl, protected_series_logged_in,
                   userPrompts, pwPrompts, ethLoginRuns, protLoginRuns,
                   started,
                   refetched>>
    /\ UNCHANGED OthersM

\* a series loop is exhausted: after the Open loop comes the login part
\* (1605); after download_protected_videos the Eth loop if eth_success
\* (1642), else the end; after the Eth loop the end
MEndLoop ==
    /\ mpc \in {"open_loop", "prot_dl", "eth_loop"}
    /\ stage = "none"
    /\ pos > Len(CurList)
    /\ mpc' = CASE mpc = "open_loop" -> "eth_login"
                [] mpc = "prot_dl" ->
                      IF eth_success = "True" THEN "eth_loop" ELSE "done"
                [] mpc = "eth_loop" -> "done"
    /\ pos' = 1
    /\ UNCHANGED <<nSeries, page, username, nitems, classIdx, login_type,
                   open_series, protected_series,
                   eth_series, eth_success, pl, protected_series_logged_in,
                   cur, stage, ist, videos_data, userPrompts, pwPrompts,
                   ethLoginRuns, protLoginRuns, started, finished, raisedAt,
                   refetched>>
    /\ UNCHANGED OthersM

ProtTodo == [s \in Series |->
                IF \E k \in DOMAIN protected_series : protected_series[k] = s
                THEN "todo" ELSE "-"]

\* lines 1605-1606 with an empty eth_series: eth_success stays None
MEthLoginSkip ==
    /\ mpc = "eth_login"
    /\ eth_series = <<>>
    /\ eth_success' = "None"
    /\ mpc' = "prot_login"
    /\ pl' = ProtTodo
    /\ UNCHANGED <<nSeries, page, username, nitems, classIdx, login_type,
                   open_series, protected_series,
                   eth_series, protected_series_logged_in, pos, cur, stage,
                   ist, videos_data, userPrompts, pwPrompts, ethLoginRuns,
                   protLoginRuns, started, finished, raisedAt,
                   refetched>>
    /\ UNCHANGED OthersM

\* login_eth 667-707: the way to the login form (ok, or an exception out of
\* main), the credentials from the arguments (u: args.username given,
\* p: --password-from-stdin) or asked interactively, and the submission
MEthLoginBegin(u, p, ok) ==
    /\ mpc = "eth_login"
    /\ eth_series # <<>>
    /\ ethLoginRuns' = ethLoginRuns + 1
    /\ IF ok
       THEN /\ userPrompts' = userPrompts + (IF u = "yes" THEN 0 ELSE 1)
            /\ pwPrompts' = pwPrompts + (IF p = "yes" THEN 0 ELSE 1)
            /\ mpc' = "eth_submitted"
            /\ UNCHANGED raisedAt
       ELSE /\ mpc' = "crashed"
            /\ raisedAt' = "login_eth_goto"
            /\ UNCHANGED <<userPrompts, pwPrompts>>
    /\ UNCHANGED <<nSeries, page, username, nitems, classIdx, login_type,
                   open_series, protected_series, eth_series, eth_success, pl,
                   protected_series_logged_in, pos, cur, stage, ist,
                   videos_data, protLoginRuns, started, finished,
                   refetched>>
    /\ UNCHANGED OthersM

\* login_eth 713-730: the wait for the user settings button (a timeout
\* raises out of main), then the check of the landing url
MEthLoginEnd(r) ==
    /\ mpc = "eth_submitted"
    /\ IF r = "raise"
       THEN /\ mpc' = "crashed"
            /\ raisedAt' = "login_eth_wait"
            /\ UNCHANGED <<eth_success, pl>>
       ELSE /\ eth_success' = r
            /\ mpc' = "prot_login"
            /\ pl' = ProtTodo
            /\ UNCHANGED raisedAt
    /\ UNCHANGED <<nSeries, page, username, nitems, classIdx, login_type,
                   open_series, protected_series,
                   eth_series, protected_series_logged_in, pos, cur, stage,
                   ist, videos_data, userPrompts, pwPrompts, ethLoginRuns,
                   protLoginRuns, started, finished,
                   refetched>>
    /\ UNCHANGED OthersM

PLInFlight == {s \in Series : pl[s] \in {"page", "form"}}

\* login_protected_first_video 1618-1623 under gather_with_concurrency(10):
\* a new page goes to the first video of the series
MProtLoginStart(s) ==
    /\ mpc = "prot_login"
    /\ s \in Series
    /\ pl[s] = "todo"
    /\ \A t \in 1..(s - 1) : pl[t] # "todo"
    /\ Cardinality(PLInFlight) < LoginCap
    /\ pl' = [pl EXCEPT ![s] = "page"]
    /\ UNCHANGED <<nSeries, page, username, nitems, mpc, classIdx, login_type,
                   open_series, protected_series,
                   eth_series, eth_success, protected_series_logged_in, pos,
                   cur, stage, ist, videos_data, userPrompts, pwPrompts,
                   ethLoginRuns, protLoginRuns, started, finished, raisedAt,
                   refetched>>
    /\ UNCHANGED OthersM

\* page.goto raised: the task ends with an exception that gather captures
MProtLoginGotoFail(s) ==
    /\ mpc = "prot_login"
    /\ s \in Series
    /\ pl[s] = "page"
    /\ pl' = [pl EXCEPT ![s] = "exc"]
    /\ UNCHANGED <<nSeries, page, username, nitems, mpc, classIdx, login_type,
                   open_series, protected_series,
                   eth_series, eth_success, protected_series_logged_in, pos,
                   cur, stage, ist, videos_data, userPrompts, pwPrompts,
                   ethLoginRuns, protLoginRuns, started, finished, raisedAt,
                   refetched>>
    /\ UNCHANGED OthersM

\* login_protected 751-771: credentials of the series or interactive ones,
\* cached on the series; the form is being filled
MProtLoginForm(s) ==
    /\ mpc = "prot_login"
    /\ s \in Series
    /\ pl[s] = "page"
    /\ pl' = [pl EXCEPT ![s] = "form"]
    /\ protLoginRuns' = [protLoginRuns EXCEPT ![s] = @ + 1]
    /\ userPrompts' = userPrompts + Prompts(username[s])
    /\ pwPrompts' = pwPrompts + Prompts(username[s])
    /\ username' = [username EXCEPT ![s] = AfterPrompt(@)]
    /\ UNCHANGED <<nSeries, page, nitems, mpc,
                   classIdx, login_type, open_series, protected_series,
                   eth_series, eth_success, protected_series_logged_in, pos,
                   cur, stage, ist, videos_data, ethLoginRuns, started,
                   finished, raisedAt,
                   refetched>>
    /\ UNCHANGED OthersM

\* login_protected 770-794: the fill and the click went through (the series
\* is returned) or raised (caught, None is returned)
MProtLoginEnd(s, ok) ==
    /\ mpc = "prot_login"
    /\ s \in Series
    /\ pl[s] = "form"
    /\ pl' = [pl EXCEPT ![s] = IF ok THEN "ok" ELSE "none"]
    /\ UNCHANGED <<nSeries, page, username, nitems, mpc, classIdx, login_type,
                   open_series, protected_series,
                   eth_series, eth_success, protected_series_logged_in, pos,
                   cur, stage, ist, videos_data, userPrompts, pwPrompts,
                   ethLoginRuns, protLoginRuns, started, finished, raisedAt,
                   refetched>>
    /\ UNCHANGED OthersM

\* lines 1629-1631: [x for x in await gather_with_concurrency(...) if x]
\* keeps the returned series and the captured exceptions (both truthy)
MProtLoginGather ==
    /\ mpc = "prot_login"
    /\ \A s \in Series : pl[s] \in {"-", "ok", "none", "exc"}
    /\ protected_series_logged_in' =
          LET kept == AscSeq({s \in Series : pl[s] \in {"ok", "exc"}})
          IN [k \in DOMAIN kept |->
                 [s |-> kept[k], exc |-> pl[kept[k]] = "exc"]]
    /\ mpc' = "prot_dl"
    /\ pos' = 1
    /\ UNCHANGED <<nSeries, page, username, nitems, classIdx, login_type,
                   open_series, protected_series,
                   eth_series, eth_success, pl, cur, stage, ist, videos_data,
                   userPrompts, pwPrompts, ethLoginRuns, protLoginRuns,
                   started, finished, raisedAt,
                   refetched>>
    /\ UNCHANGED OthersM

NextM ==
    \/ \E pg \in Pages, u \in {"config", "none"}, ok \in BOOLEAN :
          MClassify(pg, u, ok)
    \/ MBucket
    \/ \E n \in 1..MaxItems, ok \in BOOLEAN : MBeginSeries(n, ok)
    \/ \E i \in 1..MaxItems : MItemStart(i)
    \/ \E i \in 1..MaxItems : MItemLogin(i)
    \/ \E i \in 1..MaxItems, ok \in BOOLEAN : MItemFinish(i, ok)
    \/ MStageEnd
    \/ MEndLoop
    \/ MEthLoginSkip
    \/ \E u \in {"yes", "no"}, p \in {"yes", "no"}, ok \in BOOLEAN :
          MEthLoginBegin(u, p, ok)
    \/ \E r \in {"True", "False", "raise"} : MEthLoginEnd(r)
    \/ \E s \in 1..MaxSeries : MProtLoginStart(s)
    \/ \E s \in 1..MaxSeries : MProtLoginGotoFail(s)
    \/ \E s \in 1..MaxSeries : MProtLoginForm(s)
    \/ \E s \in 1..MaxSeries, ok \in BOOLEAN : MProtLoginEnd(s, ok)
    \/ MProtLoginGather

\* a run of main over one series of up to MaxBatch entries in which every
\* request succeeds: the same steps as NextM, with batches large enough for
\* the capacities of the three gathers to bind
NextBatch ==
    \/ \E pg \in {"download", "verify", "notallowed"} :
          MClassify(pg, IF pg = "verify" THEN "config" ELSE "none", TRUE)
    \/ MBucket
    \/ \E n \in 1..MaxBatch : MBeginSeries(n, TRUE)
    \/ \E i \in 1..MaxBatch : MItemStart(i)
    \/ \E i \in 1..MaxBatch : MItemLogin(i)
    \/ \E i \in 1..MaxBatch : MItemFinish(i, TRUE)
    \/ MStageEnd
    \/ MEndLoop
    \/ MEthLoginSkip
    \/ MEthLoginBegin("yes", "yes", TRUE)
    \/ \E r \in {"True", "False"} : MEthLoginEnd(r)
    \/ MProtLoginStart(1)
    \/ MProtLoginForm(1)
    \/ MProtLoginEnd(1, TRUE)
    \/ MProtLoginGather

(***************************************************************************)
(* download_video_subtitles_and_maybe_audio (eth_videoz.py 956-1083) for   *)
(* one item, as the sequence of the requests it makes.                     *)
(***************************************************************************)
\* the keys process_entry gives to the three maps (613-634), and the
\* language tags of the captions
Qualities == {"mid", "high"}
AudioFormats == {"m4a", "ogg"}
Languages == {"en-US", "de-DE"}

\* a url is the map it comes from and its key there; None is NoUrl
NoUrl == <<"none", "none">>

\* lines 991-999: the configured quality of a non-empty video map, else the
\* configured format of the audio map; None when the key is missing
SelectMediaMutant(vs, aus, vq, aq) ==
    IF vq \in vs THEN <<"video", vq>>
    ELSE IF aq \in aus THEN <<"audio", aq>> ELSE NoUrl
SelectMedia(vs, aus, vq, aq) ==
    IF vs # {}
    THEN IF vq \in vs THEN <<"video", vq>> ELSE NoUrl
    ELSE IF aq \in aus THEN <<"audio", aq>> ELSE NoUrl

\* url.rsplit(".", 1)[1]: the links end in .mp4, .vtt or the audio format
Extension(url) ==
    IF url[1] = "video" THEN "mp4"
    ELSE IF url[1] = "subtitle" THEN "vtt"
    ELSE url[2]

\* lines 1006-1009 and 1067-1069: the files of one item share the name up to
\* the extension, so the extension stands for the path
Filename(url) == Extension(url)

\* lines 1054-1060: media_metadata["subtitle_sources"][subtitle], where a
\* KeyError skips the language
HasSubtitleMutant(lang) == TRUE
HasSubtitle(lang) == lang \in subtitle_sources

\* lines 1028-1046: the request for the media file
MediaRequest ==
    IF get_size
    THEN [fn |-> "get_remote_file_size", url |-> media_url, path |-> "-"]
    ELSE [fn |-> "download_file", url |-> media_url,
          path |-> Filename(media_url)]

\* lines 1064-1080: the request for one subtitle; the size probe asks for
\* media_url
SubtitleRequest(lang) ==
    IF get_size
    THEN [fn |-> "get_remote_file_size", url |-> media_url, path |-> "-"]
    ELSE [fn |-> "download_file", url |-> <<"subtitle", lang>>,
          path |-> Filename(<<"subtitle", lang>>)]

\* a file's entry in remote_size
SizeKey(url) == IF url[1] = "subtitle" THEN url[2] ELSE "media"

NoHeaders == [cr |-> -1, cl |-> -1]

AnyHeaders == [cr : -1..MaxSize, cl : {-1, 1}]

\* what a server may answer to `Range: bytes=0-0` for a url: Content-Range
\* with the size of the file or none, Content-Length (of the one byte) or
\* none
Headers(url) ==
    [cr : {-1, remote_size[SizeKey(url)]}, cl : {-1, 1}]

\* get_remote_file_size 815-831: the total of Content-Range, else
\* Content-Length, else 0
RemoteFileSize(h) ==
    IF h.cr # -1 THEN h.cr ELSE IF h.cl # -1 THEN h.cl ELSE 0

\* lines 1028-1042: os.makedirs is in the else branch of `if get_size`
MakesDirsMutant(gs) == TRUE
MakesDirs(gs) == ~gs

\* lines 991-1000: the media url; None.rsplit raises
VSelect ==
    /\ vpc = "start"
    /\ media_url' = SelectMedia(video_sources, audio_sources, video_quality,
                                audio_quality)
    /\ vpc' = IF media_url' = NoUrl THEN "raised" ELSE "media"
    /\ UNCHANGED <<video_sources, audio_sources, subtitle_sources,
                   video_quality, audio_quality, subtitles, get_size, subIdx,
                   calls, callFailed>>
    /\ UNCHANGED varsF
    /\ UNCHANGED OthersV

\* lines 1027-1046: the size or the transfer of the media file (ok), or an
\* exception of the request; h is what the server answers to the size probe
VMedia(ok, h) ==
    /\ vpc = "media"
    /\ h \in (IF get_size /\ ok THEN Headers(MediaRequest.url) ELSE {NoHeaders})
    /\ calls' = Append(calls, MediaRequest)
    /\ made' = (made \/ MakesDirs(get_size))
    /\ IF get_size /\ ok
       THEN /\ filesize' = RemoteFileSize(h)
            /\ headers' = h
            /\ probed' = RemoteFileSize(h)
            /\ exact' = (exact /\ RemoteFileSize(h)
                                     = remote_size[SizeKey(MediaRequest.url)])
       ELSE UNCHANGED <<filesize, headers, probed, exact>>
    /\ UNCHANGED remote_size
    /\ IF ok
       THEN /\ vpc' = "subs"
            /\ subIdx' = 1
            /\ UNCHANGED callFailed
       ELSE /\ vpc' = "raised"
            /\ callFailed' = TRUE
            /\ UNCHANGED subIdx
    /\ UNCHANGED <<video_sources, audio_sources, subtitle_sources,
                   video_quality, audio_quality, subtitles, get_size,
                   media_url>>
    /\ UNCHANGED OthersV

\* lines 1052-1080: one turn of the loop over the configured languages; h
\* is what the server answers to the size probe
VSubtitle(ok, h) ==
    /\ vpc = "subs"
    /\ subIdx <= Len(subtitles)
    /\ LET lang == subtitles[subIdx]
           req == SubtitleRequest(lang)
       IN IF HasSubtitle(lang)
          THEN /\ h \in (IF get_size /\ ok THEN Headers(req.url)
                                            ELSE {NoHeaders})
               /\ calls' = Append(calls, req)
               /\ IF ok
                  THEN /\ subIdx' = subIdx + 1
                       /\ UNCHANGED <<vpc, callFailed>>
                  ELSE /\ vpc' = "raised"
                       /\ callFailed' = TRUE
                       /\ UNCHANGED subIdx
               /\ IF get_size /\ ok
                  THEN /\ filesize' = filesize + RemoteFileSize(h)
                       /\ headers' = h
                       /\ probed' = RemoteFileSize(h)
                       /\ exact' = (exact /\ RemoteFileSize(h)
                                                = remote_size[SizeKey(req.url)])
                  ELSE UNCHANGED <<filesize, headers, probed, exact>>
          ELSE /\ ok
               /\ h = NoHeaders
               /\ subIdx' = subIdx + 1
               /\ UNCHANGED <<vpc, calls, callFailed>>
               /\ UNCHANGED <<filesize, headers, probed, exact>>
    /\ UNCHANGED <<remote_size, made>>
    /\ UNCHANGED <<video_sources, audio_sources, subtitle_sources,
                   video_quality, audio_quality, subtitles, get_size,
                   media_url>>
    /\ UNCHANGED OthersV

\* lines 1081-1083: the loop is over (or `if subtitles` was false)
VReturn ==
    /\ vpc = "subs"
    /\ subIdx > Len(subtitles)
    /\ vpc' = "returned"
    /\ UNCHANGED <<video_sources, audio_sources, subtitle_sources,
                   video_quality, audio_quality, subtitles, get_size,
                   media_url, subIdx, calls, callFailed>>
    /\ UNCHANGED varsF
    /\ UNCHANGED OthersV

NextV ==
    \/ VSelect
    \/ \E ok \in BOOLEAN, h \in AnyHeaders : VMedia(ok, h)
    \/ \E ok \in BOOLEAN, h \in AnyHeaders : VSubtitle(ok, h)
    \/ VReturn

(***************************************************************************)
(* The classification loop of main (eth_videoz.py 1517-1533) with          *)
(* get_series_type (484-537) step by step.                                 *)
(***************************************************************************)
Controls == {"download", "verify"}

NoTasks == [b \in Controls |-> "none"]

\* locator.wait_for(state="visible") is called without a timeout, so the
\* default timeout of Playwright ends a wait that is still pending
TimeoutEnabledMutant(w) == w = "never"
TimeoutEnabled(w) == w = "pending"

\* lines 530-533: the branch after download_button.is_visible() was false
VerifyVerdictMutant(vis) == IF vis THEN "protected" ELSE "eth"
VerifyVerdict(vis) == IF vis THEN "protected" ELSE "none"

\* lines 490-491: the return for a NotAllowed entry comes before
\* context.new_page and every counter.increment
CounterAfterNotAllowedMutant(c) == c + 1
CounterAfterNotAllowed(c) == c

\* lines 1518-1525: the series has no entries and main calls exit()
CNoEntries ==
    /\ cpc = "loop"
    /\ cIdx <= cN
    /\ cpc' = "exited"
    /\ UNCHANGED <<cN, cIdx, cTypes, cShows, visible, wtask, cResult,
                   cPageOpen>>
    /\ UNCHANGED <<counter, cPages, cNavs>>
    /\ UNCHANGED OthersC

\* lines 490-491: a first entry of type NotAllowed, no page is opened
CNotAllowed ==
    /\ cpc = "loop"
    /\ cIdx <= cN
    /\ cTypes' = [cTypes EXCEPT ![cIdx] = "eth"]
    /\ cIdx' = cIdx + 1
    /\ counter' = CounterAfterNotAllowed(counter)
    /\ UNCHANGED <<cN, cpc, cShows, visible, wtask, cResult, cPageOpen>>
    /\ UNCHANGED <<cPages, cNavs>>
    /\ UNCHANGED OthersC

\* lines 498-499: a new page; shows is what the video page will ever show
CNewPage(shows) ==
    /\ cpc = "loop"
    /\ cIdx <= cN
    /\ cPageOpen' = TRUE
    /\ cShows' = shows
    /\ cpc' = "goto"
    /\ cPages' = cPages + 1
    /\ counter' = counter + 1
    /\ UNCHANGED <<cN, cIdx, cTypes, visible, wtask, cResult, cNavs>>
    /\ UNCHANGED OthersC

\* lines 504-524: page.goto and a click counted, then the two wait_for
\* tasks are created; if goto raises, the finally clause closes the page,
\* counts a click and main is left
CGoto(ok) ==
    /\ cpc = "goto"
    /\ IF ok
       THEN /\ wtask' = [b \in Controls |-> "pending"]
            /\ cpc' = "wait"
            /\ UNCHANGED cPageOpen
       ELSE /\ cPageOpen' = FALSE
            /\ cpc' = "raised"
            /\ UNCHANGED wtask
    /\ cNavs' = cNavs + 1
    /\ counter' = counter + 1
    /\ UNCHANGED <<cN, cIdx, cTypes, cShows, visible, cResult, cPages>>
    /\ UNCHANGED OthersC

\* the page renders a control
CShow(b) ==
    /\ cpc \in {"wait", "check_download", "check_verify"}
    /\ b \in cShows \ visible
    /\ visible' = visible \cup {b}
    /\ UNCHANGED <<cN, cIdx, cTypes, cpc, cShows, wtask, cResult, cPageOpen>>
    /\ UNCHANGED <<counter, cPages, cNavs>>
    /\ UNCHANGED OthersC

\* a wait_for task sees its control
CTaskDone(b) ==
    /\ cpc = "wait"
    /\ wtask[b] = "pending"
    /\ b \in visible
    /\ wtask' = [wtask EXCEPT ![b] = "visible"]
    /\ UNCHANGED <<cN, cIdx, cTypes, cpc, cShows, visible, cResult, cPageOpen>>
    /\ UNCHANGED <<counter, cPages, cNavs>>
    /\ UNCHANGED OthersC

\* a wait_for task ends by TimeoutError, kept in the task
CTaskTimeout(b) ==
    /\ cpc = "wait"
    /\ TimeoutEnabled(wtask[b])
    /\ b \notin visible
    /\ wtask' = [wtask EXCEPT ![b] = "timeout"]
    /\ UNCHANGED <<cN, cIdx, cTypes, cpc, cShows, visible, cResult, cPageOpen>>
    /\ UNCHANGED <<counter, cPages, cNavs>>
    /\ UNCHANGED OthersC

\* lines 523-524: `for task in pending: task.cancel()` on a task in state w
AfterCancelMutant(w) == w
AfterCancel(w) == IF w = "pending" THEN "cancelled" ELSE w

\* lines 518-524: asyncio.wait(FIRST_COMPLETED) returns once a task is
\* done; the pending one is cancelled
CWaitReturn ==
    /\ cpc = "wait"
    /\ \E b \in Controls : wtask[b] \in {"visible", "timeout"}
    /\ wtask' = [b \in Controls |-> AfterCancel(wtask[b])]
    /\ cpc' = "check_download"
    /\ UNCHANGED <<cN, cIdx, cTypes, cShows, visible, cResult, cPageOpen>>
    /\ UNCHANGED <<counter, cPages, cNavs>>
    /\ UNCHANGED OthersC

\* lines 528-529: if await download_button.is_visible(): return "open"
CCheckDownload ==
    /\ cpc = "check_download"
    /\ IF "download" \in visible
       THEN /\ cResult' = "open"
            /\ cpc' = "closing"
       ELSE /\ cpc' = "check_verify"
            /\ UNCHANGED cResult
    /\ UNCHANGED <<cN, cIdx, cTypes, cShows, visible, wtask, cPageOpen>>
    /\ UNCHANGED <<counter, cPages, cNavs>>
    /\ UNCHANGED OthersC

\* lines 530-533: elif await verify_button.is_visible()
CCheckVerify ==
    /\ cpc = "check_verify"
    /\ cResult' = VerifyVerdict("verify" \in visible)
    /\ cpc' = "closing"
    /\ UNCHANGED <<cN, cIdx, cTypes, cShows, visible, wtask, cPageOpen>>
    /\ UNCHANGED <<counter, cPages, cNavs>>
    /\ UNCHANGED OthersC

\* lines 535-537 and 1531: the page is closed, the value is returned and
\* stored as series["login_type"]; the loop goes to the next series
CClose ==
    /\ cpc = "closing"
    /\ cPageOpen' = FALSE
    /\ cTypes' = [cTypes EXCEPT ![cIdx] = cResult]
    /\ cIdx' = cIdx + 1
    /\ cpc' = "loop"
    /\ cShows' = {}
    /\ visible' = {}
    /\ wtask' = NoTasks
    /\ cResult' = "-"
    /\ counter' = counter + 1
    /\ UNCHANGED <<cN, cPages, cNavs>>
    /\ UNCHANGED OthersC

NextC ==
    \/ CNoEntries
    \/ CNotAllowed
    \/ \E shows \in SUBSET Controls : CNewPage(shows)
    \/ \E ok \in BOOLEAN : CGoto(ok)
    \/ \E b \in Controls : CShow(b)
    \/ \E b \in Controls : CTaskDone(b)
    \/ \E b \in Controls : CTaskTimeout(b)
    \/ CWaitReturn
    \/ CCheckDownload
    \/ CCheckVerify
    \/ CClose

(***************************************************************************)
(* login_eth (eth_videoz.py 661-730).  A url is a sequence of pieces: the  *)
(* scheme, pieces of the host name, and "/" where the path begins.         *)
(***************************************************************************)
UrlPieces == {"https://", "video.ethz.ch", "idp.example",
              ".attacker.example", "/", "v"}

HostPieces == {"video.ethz.ch", "idp.example", ".attacker.example"}

\* the urls a browser can be at: the scheme, a host name (a name, with or
\* without further labels behind it), then a path or none
Urls ==
    {u \in SeqsUpTo(UrlPieces, MaxUrl) :
        /\ Len(u) >= 2
        /\ u[1] = "https://"
        /\ u[2] \in {"video.ethz.ch", "idp.example"}
        /\ \A k \in 3..Len(u) :
              /\ u[k] \in {".attacker.example", "/", "v"}
              /\ u[k] = ".attacker.example" =>
                    \A j \in 3..k : u[j] = ".attacker.example"
              /\ u[k] = "v" => \E j \in 3..(k - 1) : u[j] = "/"}

\* the host name of a url: the pieces between the scheme and the path
Host(u) ==
    LET n == CHOOSE k \in 1..Len(u) :
                /\ \A j \in 2..k : u[j] \in HostPieces
                /\ k = Len(u) \/ u[k + 1] \notin HostPieces
    IN SubSeq(u, 2, n)

\* "https://video.ethz.ch"
PortalPrefix == <<"https://", "video.ethz.ch">>

\* line 721: page.url.startswith("https://video.ethz.ch")
LandingAccepted(u) == IsPrefix(PortalPrefix, u)

\* lines 665-686: the way to the login form of the identity provider; any
\* step of it may raise (ok = FALSE)
ENavigate(ok) ==
    /\ epc = "start"
    /\ epc' = IF ok THEN "form" ELSE "raised"
    /\ UNCHANGED <<eArgUser, eStdin, eUrl, eUSERNAME, ePASSWORD, eResult,
                   eUserPrompts, ePwPrompts>>
    /\ UNCHANGED OthersE

\* lines 690-701: the credentials from the arguments and stdin, or asked
ECredentials ==
    /\ epc = "form"
    /\ eUSERNAME' = IF eArgUser THEN "args" ELSE "typed"
    /\ ePASSWORD' = IF eStdin THEN "stdin" ELSE "typed"
    /\ eUserPrompts' = eUserPrompts + (IF eArgUser THEN 0 ELSE 1)
    /\ ePwPrompts' = ePwPrompts + (IF eStdin THEN 0 ELSE 1)
    /\ epc' = "credentials"
    /\ UNCHANGED <<eArgUser, eStdin, eUrl, eResult>>
    /\ UNCHANGED OthersE

\* lines 703-711: the form is filled and submitted (ok) and the two locals
\* are deleted; a fill or the press may raise, before the del statements
ESubmit(ok) ==
    /\ epc = "credentials"
    /\ eUSERNAME' = IF ok THEN "unbound" ELSE eUSERNAME
    /\ ePASSWORD' = IF ok THEN "unbound" ELSE ePASSWORD
    /\ epc' = IF ok THEN "submitted" ELSE "raised"
    /\ UNCHANGED <<eArgUser, eStdin, eUrl, eResult, eUserPrompts, ePwPrompts>>
    /\ UNCHANGED OthersE

\* line 713: the wait for the user settings button; its timeout raises
EIndicator(ok) ==
    /\ epc = "submitted"
    /\ epc' = IF ok THEN "landed" ELSE "raised"
    /\ UNCHANGED <<eArgUser, eStdin, eUrl, eUSERNAME, ePASSWORD, eResult,
                   eUserPrompts, ePwPrompts>>
    /\ UNCHANGED OthersE

\* lines 721-730: True or False by the landing url
ECheckUrl ==
    /\ epc = "landed"
    /\ eResult' = IF LandingAccepted(eUrl) THEN "True" ELSE "False"
    /\ epc' = "returned"
    /\ UNCHANGED <<eArgUser, eStdin, eUrl, eUSERNAME, ePASSWORD,
                   eUserPrompts, ePwPrompts>>
    /\ UNCHANGED OthersE

NextE ==
    \/ \E ok \in BOOLEAN : ENavigate(ok)
    \/ ECredentials
    \/ \E ok \in BOOLEAN : ESubmit(ok)
    \/ \E ok \in BOOLEAN : EIndicator(ok)
    \/ ECheckUrl

(***************************************************************************)
(* The logins of one Protected series (eth_videoz.py 733-794, 1617-1648):  *)
(* login_protected_first_video, then, when eth_success is falsy, one       *)
(* login_protected per entry from process_entry.                           *)
(***************************************************************************)
\* what a user can type at a prompt: something, or just Enter
Typed == {"typed", ""}

\* `if series["username"]:`, `if series["password"]:` (752, 757): the truth
\* value of None, of a string of the urls file, and of a typed string
Truthy(v) == v \notin {"None", ""}

PCalls == 0..pEntries

\* lines 1618-1623: the page of the first video is opened (ok) or page.goto
\* raises out of login_protected_first_video
PFirstPage(ok) ==
    /\ pStage = "login"
    /\ pCall[0] = "idle"
    /\ pCall' = [pCall EXCEPT ![0] = IF ok THEN "page" ELSE "raised"]
    /\ UNCHANGED <<pUsername, pPassword, pEthSuccess, pEntries, pStage,
                   pPASSWORD, pAccepted, pUserPrompts, pPwPrompts>>
    /\ UNCHANGED OthersP

\* lines 751-761, which hold no await: the credentials of the series are
\* taken, or asked for (u and p are typed) and stored on the series
PCredentials(c, u, p) ==
    /\ c \in PCalls
    /\ pCall[c] = "page"
    /\ Truthy(pUsername) => u = "typed"
    /\ Truthy(pPassword) => p = "typed"
    /\ pUsername' = IF Truthy(pUsername) THEN pUsername ELSE u
    /\ pPassword' = IF Truthy(pPassword) THEN pPassword ELSE p
    /\ pUserPrompts' = pUserPrompts + (IF Truthy(pUsername) THEN 0 ELSE 1)
    /\ pPwPrompts' = pPwPrompts + (IF Truthy(pPassword) THEN 0 ELSE 1)
    /\ pPASSWORD' = [pPASSWORD EXCEPT ![c] = pPassword']
    /\ pCall' = [pCall EXCEPT ![c] = "credentials"]
    /\ UNCHANGED <<pEthSuccess, pEntries, pStage, pAccepted>>
    /\ UNCHANGED OthersP

\* what login_protected does with the answer of the portal (770-780): the
\* series is returned whatever the portal answered
LoginReturn(acc) == "series"

\* lines 767-794: the form is filled and Verify is clicked; the portal
\* accepts what was submitted or not (acc).  A fill or the click that raises
\* (~ok) is caught and None is returned.  The locals end with the call.
PSubmit(c, ok, acc) ==
    /\ c \in PCalls
    /\ pCall[c] = "credentials"
    /\ ~ok => ~acc
    /\ pCall' = [pCall EXCEPT ![c] = IF ok THEN LoginReturn(acc) ELSE "None"]
    /\ pAccepted' = [pAccepted EXCEPT ![c] = IF acc THEN "yes" ELSE "no"]
    /\ pPASSWORD' = [pPASSWORD EXCEPT ![c] = "unbound"]
    /\ UNCHANGED <<pUsername, pPassword, pEthSuccess, pEntries, pStage,
                   pUserPrompts, pPwPrompts>>
    /\ UNCHANGED OthersP

\* lines 1629-1639, 1647: the series stays in protected_series_logged_in if
\* what the gather holds for it is truthy; a captured exception is, and
\* download_protected_videos raises on it (line 1093)
PGather ==
    /\ pStage = "login"
    /\ pCall[0] \in {"series", "None", "raised"}
    /\ pStage' = CASE pCall[0] = "series" -> "download"
                   [] pCall[0] = "None" -> "done"
                   [] OTHER -> "raised"
    /\ UNCHANGED <<pUsername, pPassword, pEthSuccess, pEntries, pCall,
                   pPASSWORD, pAccepted, pUserPrompts, pPwPrompts>>
    /\ UNCHANGED OthersP

\* process_entry 550-575: the page of entry i is opened; login_protected
\* follows only under protected_without_eth_login
PItemPage(i) ==
    /\ pStage = "download"
    /\ i \in 1..pEntries
    /\ pCall[i] = "idle"
    /\ pCall' = [pCall EXCEPT ![i] = IF pEthSuccess THEN "nologin" ELSE "page"]
    /\ UNCHANGED <<pUsername, pPassword, pEthSuccess, pEntries, pStage,
                   pPASSWORD, pAccepted, pUserPrompts, pPwPrompts>>
    /\ UNCHANGED OthersP

\* lines 1097-1099: the gather of the process_entry calls is over
PItemsDone ==
    /\ pStage = "download"
    /\ \A i \in 1..pEntries : pCall[i] \in {"nologin", "series", "None"}
    /\ pStage' = "done"
    /\ UNCHANGED <<pUsername, pPassword, pEthSuccess, pEntries, pCall,
                   pPASSWORD, pAccepted, pUserPrompts, pPwPrompts>>
    /\ UNCHANGED OthersP

NextP ==
    \/ \E ok \in BOOLEAN : PFirstPage(ok)
    \/ \E c \in 0..MaxItems, u \in Typed, p \in Typed : PCredentials(c, u, p)
    \/ \E c \in 0..MaxItems, ok \in BOOLEAN, acc \in BOOLEAN : PSubmit(c, ok, acc)
    \/ PGather
    \/ \E i \in 1..MaxItems : PItemPage(i)
    \/ PItemsDone

(***************************************************************************)
(* The start of main (eth_videoz.py 1267-1533): the urls file, the         *)
(* connectivity check, the browser, get_urls, the quick add, the metadata  *)
(* of the series and the classification loop.                              *)
(***************************************************************************)
\* the run is over before its time: exit() or an exception out of main
SStop(how, site) ==
    /\ spc' = how
    /\ sEnd' = site

\* lines 1267-1333: without ~/.config/eth-videoz/urls the file is created,
\* with the notice counter as its only line, or exit() if that fails (~ok);
\* with it, the notice counter is counted down and errors are only logged
SUrlsFile(ok) ==
    /\ spc = "urls_file"
    /\ sCfgFile => ok
    /\ IF ~sCfgFile /\ ~ok
       THEN /\ SStop("exited", "create_urls_file")
            /\ sLog' = sLog \cup {"create_failed"}
            /\ UNCHANGED sCfgFile
       ELSE /\ spc' = "connect"
            /\ sCfgFile' = TRUE
            /\ UNCHANGED <<sLog, sEnd>>
    /\ UNCHANGED <<sCwdFile, sCfgUrls, sCwdUrls, sMissing, quick_add,
                   series_urls, sMeta, sIdx, sClassified, sFetches>>
    /\ UNCHANGED OthersS

\* lines 1344-1364: the connectivity check; exit() when it fails
SConnect(ok) ==
    /\ spc = "connect"
    /\ IF ok
       THEN /\ spc' = "browser"
            /\ UNCHANGED <<sLog, sEnd>>
       ELSE /\ SStop("exited", "connectivity")
            /\ sLog' = sLog \cup {"no_connection"}
    /\ UNCHANGED <<sCfgFile, sCwdFile, sCfgUrls, sCwdUrls, sMissing,
                   quick_add, series_urls, sMeta, sIdx, sClassified, sFetches>>
    /\ UNCHANGED OthersS

\* lines 1366-1395: the browser, its first page and the portal; a launch or
\* a navigation that fails raises out of main
SBrowser(ok) ==
    /\ spc = "browser"
    /\ IF ok
       THEN /\ spc' = "get_urls"
            /\ UNCHANGED sEnd
       ELSE SStop("raised", "browser")
    /\ UNCHANGED <<sCfgFile, sCwdFile, sCfgUrls, sCwdUrls, sMissing,
                   quick_add, series_urls, sMeta, sIdx, sClassified, sFetches,
                   sLog>>
    /\ UNCHANGED OthersS

\* get_urls 1174-1188: ./urls first, then ~/.config/eth-videoz/urls
UrlsFound == sCwdFile \/ sCfgFile
UrlsRead == IF sCwdFile THEN sCwdUrls ELSE sCfgUrls

\* line 1399, get_urls 1174-1229: the url lines of the file found; an empty
\* list without a quick add is logged (1222-1227) and returned all the same
SGetUrls ==
    /\ spc = "get_urls"
    /\ IF ~UrlsFound
       THEN /\ SStop("raised", "FileNotFoundError")
            /\ UNCHANGED <<series_urls, sLog>>
       ELSE /\ series_urls' = UrlsRead
            /\ sLog' = IF UrlsRead = 0 /\ quick_add = "None"
                       THEN sLog \cup {"urls_empty"} ELSE sLog
            /\ spc' = "quick_add"
            /\ UNCHANGED sEnd
    /\ UNCHANGED <<sCfgFile, sCwdFile, sCfgUrls, sCwdUrls, sMissing,
                   quick_add, sMeta, sIdx, sClassified, sFetches>>
    /\ UNCHANGED OthersS

\* lines 1406-1486: nothing without a quick add; exit() for a url that is
\* not one of the portal, or that does not answer 200 (~ok); a url not yet
\* in series_urls (new) has its metadata fetched, is appended to the urls
\* file that get_urls reads, and the file is read again
SQuickAdd(ok, new) ==
    /\ spc = "quick_add"
    /\ quick_add # "valid" => (ok /\ ~new)
    /\ ~ok => ~new
    /\ (quick_add = "valid" /\ ok /\ series_urls = 0) => new
    /\ IF quick_add = "invalid" \/ ~ok
       THEN /\ SStop("exited", "quick_add")
            /\ sLog' = sLog \cup {"quick_add"}
            /\ UNCHANGED <<sCfgUrls, sCwdUrls, series_urls, sFetches>>
       ELSE /\ spc' = "metadata"
            /\ sCwdUrls' = IF new /\ sCwdFile THEN sCwdUrls + 1 ELSE sCwdUrls
            /\ sCfgUrls' = IF new /\ ~sCwdFile THEN sCfgUrls + 1 ELSE sCfgUrls
            /\ series_urls' = IF new THEN series_urls + 1 ELSE series_urls
            /\ sFetches' = IF new THEN sFetches + 1 ELSE sFetches
            /\ UNCHANGED <<sLog, sEnd>>
    /\ sMeta' = [s \in 1..series_urls' |-> "-"]
    /\ UNCHANGED <<sCfgFile, sCwdFile, sMissing, quick_add, sIdx, sClassified>>
    /\ UNCHANGED OthersS

\* lines 1495-1506: graphql_append_json_metadata of series s under the
\* gather: the series with its entries ("ok"), the series without any
\* ("empty"), or the exception the call raised ("exc")
SMetadata(s, r) ==
    /\ spc = "metadata"
    /\ s \in 1..series_urls
    /\ sMeta[s] = "-"
    /\ sMeta' = [sMeta EXCEPT ![s] = r]
    /\ sFetches' = sFetches + 1
    /\ UNCHANGED <<spc, sCfgFile, sCwdFile, sCfgUrls, sCwdUrls, sMissing,
                   quick_add, series_urls, sIdx, sClassified, sLog, sEnd>>
    /\ UNCHANGED OthersS

\* line 1506: the gather returns
SMetadataDone ==
    /\ spc = "metadata"
    /\ \A s \in 1..series_urls : sMeta[s] # "-"
    /\ spc' = "classify"
    /\ sIdx' = 1
    /\ UNCHANGED <<sCfgFile, sCwdFile, sCfgUrls, sCwdUrls, sMissing,
                   quick_add, series_urls, sMeta, sClassified, sFetches, sLog,
                   sEnd>>
    /\ UNCHANGED OthersS

\* lines 1517-1533, one turn of the loop: series["graphql"] of a captured
\* exception raises TypeError; no entries is logged and exit() is called;
\* else get_series_type returns (ok) or raises out of main
SClassifyTurn(ok) ==
    /\ spc = "classify"
    /\ sIdx <= series_urls
    /\ sMeta[sIdx] # "ok" => ok
    /\ CASE sMeta[sIdx] = "exc" ->
              /\ SStop("raised", "TypeError")
              /\ UNCHANGED <<sIdx, sClassified, sLog>>
         [] sMeta[sIdx] = "empty" ->
              /\ SStop("exited", "no_videos")
              /\ sLog' = sLog \cup {"no_videos"}
              /\ UNCHANGED <<sIdx, sClassified>>
         [] OTHER ->
              /\ sClassified' = sClassified \cup {sIdx}
              /\ IF ok
                 THEN /\ sIdx' = sIdx + 1
                      /\ UNCHANGED <<spc, sEnd>>
                 ELSE /\ SStop("raised", "get_series_type")
                      /\ UNCHANGED sIdx
              /\ UNCHANGED sLog
    /\ UNCHANGED <<sCfgFile, sCwdFile, sCfgUrls, sCwdUrls, sMissing,
                   quick_add, series_urls, sMeta, sFetches>>
    /\ UNCHANGED OthersS

\* line 1539: the loop is over, the buckets and the phases follow
SClassifyEnd ==
    /\ spc = "classify"
    /\ sIdx > series_urls
    /\ spc' = "phases"
    /\ UNCHANGED <<sCfgFile, sCwdFile, sCfgUrls, sCwdUrls, sMissing,
                   quick_add, series_urls, sMeta, sIdx, sClassified, sFetches,
                   sLog, sEnd>>
    /\ UNCHANGED OthersS

NextS ==
    \/ \E ok \in BOOLEAN : SUrlsFile(ok)
    \/ \E ok \in BOOLEAN : SConnect(ok)
    \/ \E ok \in BOOLEAN : SBrowser(ok)
    \/ SGetUrls
    \/ \E ok \in BOOLEAN, new \in BOOLEAN : SQuickAdd(ok, new)
    \/ \E s \in 1..(MaxSeries + 1), r \in {"ok", "empty", "exc"} : SMetadata(s, r)
    \/ SMetadataDone
    \/ \E ok \in BOOLEAN : SClassifyTurn(ok)
    \/ SClassifyEnd

(***************************************************************************)
(* SharedCounter (eth_videoz.py 188-205): concurrent calls of increment.   *)
(* Every await is a point where another task may run.                      *)
(***************************************************************************)
\* asyncio.Lock.acquire goes through at once on a free lock nobody waits for
LockFreeMutant(locked, waiters) == waiters = <<>>
LockFree(locked, waiters) == ~locked /\ waiters = <<>>

\* line 193, `async with self.lock`: the lock is taken, or the call waits
KAcquire(i) ==
    /\ i \in 1..kCalls
    /\ kpc[i] = "start"
    /\ IF LockFree(kLocked, kWaiters)
       THEN /\ kLocked' = TRUE
            /\ kpc' = [kpc EXCEPT ![i] = "add"]
            /\ UNCHANGED kWaiters
       ELSE /\ kWaiters' = Append(kWaiters, i)
            /\ kpc' = [kpc EXCEPT ![i] = "waiting"]
            /\ UNCHANGED kLocked
    /\ UNCHANGED <<kCalls, kN, value, kShown>>
    /\ UNCHANGED OthersK

\* the first waiter is woken by the release and takes the lock
KWake(i) ==
    /\ i \in 1..kCalls
    /\ kpc[i] = "waiting"
    /\ ~kLocked
    /\ kWaiters # <<>>
    /\ Head(kWaiters) = i
    /\ kLocked' = TRUE
    /\ kWaiters' = Tail(kWaiters)
    /\ kpc' = [kpc EXCEPT ![i] = "add"]
    /\ UNCHANGED <<kCalls, kN, value, kShown>>
    /\ UNCHANGED OthersK

\* line 194: self.value += n
KAdd(i) ==
    /\ i \in 1..kCalls
    /\ kpc[i] = "add"
    /\ value' = value + kN[i]
    /\ kpc' = [kpc EXCEPT ![i] = "display"]
    /\ UNCHANGED <<kCalls, kN, kLocked, kWaiters, kShown>>
    /\ UNCHANGED OthersK

\* lines 195-205: await self.display()
KDisplay(i) ==
    /\ i \in 1..kCalls
    /\ kpc[i] = "display"
    /\ kShown' = value
    /\ kpc' = [kpc EXCEPT ![i] = "release"]
    /\ UNCHANGED <<kCalls, kN, value, kLocked, kWaiters>>
    /\ UNCHANGED OthersK

\* the end of `async with`: the lock is released
KRelease(i) ==
    /\ i \in 1..kCalls
    /\ kpc[i] = "release"
    /\ kLocked' = FALSE
    /\ kpc' = [kpc EXCEPT ![i] = "done"]
    /\ UNCHANGED <<kCalls, kN, value, kWaiters, kShown>>
    /\ UNCHANGED OthersK

NextK ==
    \/ \E i \in 1..MaxIncs : KAcquire(i)
    \/ \E i \in 1..MaxIncs : KWake(i)
    \/ \E i \in 1..MaxIncs : KAdd(i)
    \/ \E i \in 1..MaxIncs : KDisplay(i)
    \/ \E i \in 1..MaxIncs : KRelease(i)

(***************************************************************************)
(* Claims about gather_with_concurrency                                    *)
(***************************************************************************)
\* tasks that hold a semaphore slot: inside the async with, or handed the
\* slot by release() and about to enter it
Holders == {i \in GTasks : gpc[i] \in {"running", "woken"}}

Errors == {i \in GTasks : outcome[i].kind = "error"}

\* a slot is given up only by a task that finished, and a blocked task is
\* admitted only with a slot that a finished task gave back
C1_Step ==
    /\ \A i \in GTasks :
          (gpc[i] \in {"running", "woken"} /\ gpc'[i] # gpc[i])
             => \/ gpc[i] = "woken" /\ gpc'[i] = "running"
                \/ gpc[i] = "running" /\ gpc'[i] = "done"
    /\ semValue' > semValue
          => \E j \in GTasks : gpc[j] = "running" /\ gpc'[j] = "done"
    /\ \A i \in GTasks :
          (gpc[i] = "waiting" /\ gpc'[i] # "waiting")
             => /\ gpc'[i] = "woken"
                /\ \/ \E j \in GTasks : gpc[j] = "running" /\ gpc'[j] = "done"
                   \/ semValue > 0 /\ semValue' = semValue - 1

\* C1: for every capacity n >= 1 at most n of the tasks hold a semaphore slot
\* in any reachable state; a slot is released only when its task has finished
\* (by success or by failure), and only then is a waiting task admitted.
C1_BoundedSlots ==
    /\ [](Cardinality(Holders) <= gN /\ Cardinality(Holders) + semValue = gN)
    /\ [][C1_Step]_vars

\* the capacity is saturated, a task has finished and given its slot to a
\* task that was waiting, and another one is still waiting
C1_Witness ==
    /\ Cardinality({i \in GTasks : gpc[i] = "running"}) = gN
    /\ \E i \in GTasks : gpc[i] = "done"
    /\ \E i \in GTasks : gpc[i] = "waiting"
    /\ \E i \in GTasks : gpc[i] = "running" /\ i > gN

\* C2: gather_with_concurrency does not short-circuit: when every task
\* terminates, all M tasks reach a terminal state and the call returns with
\* one captured outcome (value or error) per task, whatever tasks failed.
C2_AllComplete ==
    <>(/\ gReturned
       /\ Len(gResults) = gM
       /\ \A i \in GTasks :
             gpc[i] = "done" /\ gResults[i].kind \in {"value", "error"})

\* the call returned although all tasks but one failed, with more tasks than
\* slots: the survivors were admitted after failures
C2_Witness ==
    /\ gReturned
    /\ gM >= 2
    /\ gM > gN
    /\ Cardinality(Errors) = gM - 1
    /\ outcome[gM].kind = "value"

\* C3: the returned list has the length of the input list and its i-th
\* element is the outcome of the i-th input task, whatever the order of
\* admission and completion.
C3_InputOrder ==
    gReturned =>
        /\ Len(gResults) = gM
        /\ \A i \in GTasks :
              gResults[i].of = i /\ gResults[i].kind \in {"value", "error"}

\* the call returned after the tasks completed out of input order
C3_Witness ==
    /\ gReturned
    /\ gM >= 2
    /\ doneOrder[1] # 1
    /\ \E i \in GTasks : gResults[i].kind = "error"


(***************************************************************************)
(* Claims about download_file                                              *)
(***************************************************************************)
CallOver == dpc \in {"returned", "raised"}

\* C4: resumability: for every truncation length L, 0 <= L < T, of a complete
\* download of a T-byte remote file, one call against a server that honours
\* byte ranges leaves exactly the T bytes of the remote file in the
\* destination.
C4_Resumability ==
    (/\ dpc = "returned"
     /\ srv = "ranges"
     /\ f0exists
     /\ IsPrefix(f0data, remote)
     /\ Len(f0data) < Len(remote))
        => (fexists /\ fdata = remote)

\* C5: idempotence: a call whose destination already holds all T bytes of the
\* remote file never opens or writes the destination and leaves it
\* byte-identical under every response, and on a 416, 206 or 200 response it
\* returns normally; hence a second call in a row changes nothing.
C5_Idempotent ==
    (dpc # "idle" /\ f0exists /\ f0data = remote)
        => /\ fexists /\ fdata = remote
           /\ ~dOpened /\ dWrites = 0
           /\ dpc # "streaming"
           /\ (CallOver /\ resp.status \in {200, 206, 416})
                 => dpc = "returned"

\* a second call found the complete file of a non-empty remote file, was
\* answered 200 with the full body and returned
C5_Witness ==
    /\ dCalls = 2
    /\ dpc = "returned"
    /\ f0exists /\ f0data = remote /\ Len(remote) > 0
    /\ resp.status = 200 /\ resp.body = remote
    /\ fdata = remote

\* C6: when a range request was sent and the response carries no
\* Content-Range (the full body came back), the destination is opened in
\* truncate mode and ends up holding exactly the full body; it is opened in
\* append mode only when Content-Range is present.
C6_TruncateOnIgnoredRange ==
    /\ (dpc = "returned" /\ dOpened /\ rangeSent /\ resp.cr < 0)
          => (mode = "wb" /\ fdata = resp.body)
    /\ (dOpened /\ mode = "ab") => resp.cr >= 0

\* C7: every response whose status is other than 200, 206 and 416 ends the
\* call in an error with nothing written, whatever the size of the
\* destination and the Content-Length; it is never taken for a complete
\* transfer and its body is never streamed to the file.
C7_OtherStatusFatal ==
    (dpc \in {"streaming", "returned", "raised"}
        /\ resp.status \notin {200, 206, 416})
        => /\ dpc = "raised"
           /\ ~dOpened /\ dWrites = 0
           /\ fexists = f0exists /\ fdata = f0data

C39_BodyWrittenWithoutLength ==
    /\ (/\ dpc = "returned"
         /\ ~f0exists
         /\ resp.status = 200
         /\ resp.body # <<>>)
           => (dOpened /\ fexists /\ fdata = resp.body)
    /\ (dpc = "returned" /\ ~dOpened /\ resp.status = 200 /\ resp.cl < 0)
           => start_byte >= Len(remote)

(***************************************************************************)
(* Claims about main                                                       *)
(***************************************************************************)
InSeq(x, q) == \E k \in DOMAIN q : q[k] = x

Phases == {"open", "prot", "eth"}

\* a credential was asked for or a login protocol was entered
LoginHappened ==
    \/ ethLoginRuns > 0
    \/ userPrompts + pwPrompts > 0
    \/ \E s \in Series : protLoginRuns[s] > 0 \/ pl[s] \notin {"-", "todo"}

\* C8: a collection classified Unknown (get_series_type returned "none") is
\* in none of the open, protected and eth buckets, none of its items is ever
\* processed, and it alone never causes an authentication protocol to run.
C8_UnknownExcluded ==
    /\ \A s \in Series :
          login_type[s] = "none" =>
             /\ ~InSeq(s, open_series)
             /\ ~InSeq(s, protected_series)
             /\ ~InSeq(s, eth_series)
             /\ \A ph \in Phases : <<ph, s>> \notin started
    /\ (\A s \in Series : login_type[s] = "none") => ~LoginHappened

\* the configuration of the scenario: one Open collection with one item and
\* one Protected collection with one item and no credentials in the urls file
Scenario ==
    /\ nSeries = 2
    /\ \E o, p \in Series :
          /\ page[o] = "download" /\ nitems[o] = 1
          /\ page[p] = "verify" /\ nitems[p] \in {0, 1}
          /\ username[p] # "config"

\* C9: in the scenario the Open item's transfer completes with no credential
\* prompt so far, and by the time the Protected item's transfer completes,
\* and at the end of the run, the user was asked for a username and for a
\* password exactly once.
C9_ScenarioPrompts ==
    Scenario =>
       /\ (mpc = "open_loop" /\ stage = "transfer" /\ ist = <<"ok">>)
             => (userPrompts = 0 /\ pwPrompts = 0)
       /\ (mpc = "prot_dl" /\ stage = "transfer" /\ ist = <<"ok">>)
             => (userPrompts = 1 /\ pwPrompts = 1)
       /\ mpc = "done" => (userPrompts = 1 /\ pwPrompts = 1)

\* C10: whenever a credential was requested or a login protocol (login_eth,
\* login_protected) was entered, every collection classified Open has been
\* through its item fetch, its size probe and its transfers; so no step of
\* the Open phase logs in.
C10_OpenBeforeLogin ==
    LoginHappened =>
        \A s \in Series :
           login_type[s] = "open" => <<"open", s>> \in finished

\* both login protocols ran after an Open collection of two items was
\* processed
C10_Witness ==
    /\ ethLoginRuns > 0
    /\ \E s \in Series :
          /\ login_type[s] = "open"
          /\ nitems[s] = 2
          /\ <<"open", s>> \in finished
    /\ \E s \in Series : protLoginRuns[s] > 0

AfterLogin == mpc \in {"prot_login", "prot_dl", "eth_loop", "done"}

\* C11: login_eth runs exactly once in a run in which some collection was
\* classified EthRequired (login_type "eth"), and not at all in a run in
\* which no collection was classified EthRequired.
C11_EthLoginOnce ==
    /\ ethLoginRuns <= 1
    /\ (AfterLogin /\ \E s \in Series : login_type[s] = "eth")
          => ethLoginRuns = 1
    /\ (\A s \in Series : login_type[s] # "eth") => ethLoginRuns = 0

\* C12: a failure of the Eth protocol (the credentials are rejected, the
\* indicator of a session never appears, or the landing url is not the
\* portal's) does not end the run: no EthRequired collection is processed,
\* and every Protected collection whose own login succeeded has its items
\* transferred.
C12_EthFailureContinues ==
    /\ raisedAt # "login_eth_wait"
    /\ eth_success = "False" =>
          /\ \A s \in Series : <<"eth", s>> \notin started
          /\ mpc = "done" =>
                \A s \in Series : pl[s] = "ok" => <<"prot", s>> \in finished

\* C13: a failure at any step of login_protected_first_video (the page, the
\* navigation to the first item, the form) leaves that collection alone out
\* of protected_series_logged_in and never ends the run.
C13_ProtectedLoginFailureLocal ==
    /\ raisedAt # "download_protected_videos"
    /\ \A k \in DOMAIN protected_series_logged_in :
          ~protected_series_logged_in[k].exc
    /\ \A s \in Series :
          pl[s] \in {"none", "exc"} => <<"prot", s>> \notin started

\* C14: the failure of one item (its process_entry fails, or it has no
\* usable source) does not end the run: main is never left by an exception
\* raised over the results of the items of a collection.
C14_ItemFailureLocal ==
    /\ raisedAt # "sum"
    /\ mpc = "crashed" => stage = "none"

\* a step taken while the transfers of a collection are running or have
\* ended, one of them by an exception
C15_Step ==
    (stage = "transfer" /\ \E i \in DOMAIN ist : ist[i] = "err") =>
        /\ mpc' = mpc
        /\ raisedAt' = raisedAt
        /\ \/ /\ stage' = "transfer"
              /\ \A i \in DOMAIN ist :
                    ist[i] \in {"ok", "err"} => ist'[i] = ist[i]
           \/ /\ Terminal(ist)
              /\ finished' = finished \cup {<<Phase, cur>>}
              /\ pos' = pos + 1

\* C15: when the transfer of one file fails, the transfers of the sibling
\* items go on to their end, main is not left by an exception, and the loop
\* moves on to the following collection or phase.
C15_TransferFailureLocal == [][C15_Step]_vars

\* the transfers of a collection of two items have all ended, one by an
\* exception and one by a result, and a further collection follows
C15_Witness ==
    /\ stage = "transfer"
    /\ Terminal(ist)
    /\ \E i, j \in DOMAIN ist : ist[i] = "err" /\ ist[j] = "ok"
    /\ pos < Len(CurList)

C19_Step ==
    \A s \in DOMAIN login_type :
        login_type[s] # "unset" => login_type'[s] = login_type[s]

\* C19: the login_type of every collection is assigned once, before any
\* item of any collection is processed, and never assigned again.
C19_ClassifiedOnceBefore ==
    /\ [][C19_Step]_vars
    /\ [](started # {} => \A s \in Series : login_type[s] # "unset")

\* two collections are classified and the processing of one of them began
C19_Witness ==
    /\ nSeries = 2
    /\ started # {}
    /\ \A s \in Series : login_type[s] # "unset"

\* the entries of the running fetch that are past login_protected for sure,
\* and those that may be
LoggedInItems == {i \in DOMAIN ist : ist[i] \in {"login", "ok"}}
MaybeLoggedInItems == {i \in DOMAIN ist : ist[i] \in {"login", "ok", "err"}}

\* C20: when login_eth did not succeed or did not run, login_protected runs
\* once for each item, on the item's page, before the item's links are read
\* (on top of the one run of login_protected_first_video); when login_eth
\* succeeded, login_protected runs once for each Protected collection and
\* for no item.
C20_DegradedLogin ==
    /\ eth_success = "True" =>
          \A s \in Series :
             /\ protLoginRuns[s] <= 1
             /\ <<"prot", s>> \in started => protLoginRuns[s] = 1
    /\ (eth_success \in {"False", "None"} /\ mpc = "prot_dl"
           /\ stage = "fetch") =>
          /\ protLoginRuns[cur] >= 1 + Cardinality(LoggedInItems)
          /\ protLoginRuns[cur] <= 1 + Cardinality(MaybeLoggedInItems)
    /\ eth_success \in {"False", "None"} =>
          \A s \in Series :
             <<"prot", s>> \in finished => protLoginRuns[s] = 1 + nitems[s]

\* without an Eth session a Protected collection of two items was
\* transferred after three runs of login_protected
C20_Witness ==
    /\ eth_success = "False"
    /\ \E s \in Series :
          /\ <<"prot", s>> \in finished
          /\ nitems[s] = 2
          /\ protLoginRuns[s] = 3

Bucketed ==
    mpc \in {"open_loop", "eth_login", "eth_submitted", "prot_login",
             "prot_dl", "eth_loop", "done"}

\* C24: once the buckets are built every collection is in exactly one of
\* them, the one of its login_type: an Open collection only in open_series,
\* a Protected one only in protected_series, an EthRequired one only in
\* eth_series; and no collection is processed in more than one phase.
C24_OneBucket ==
    /\ Bucketed =>
          \A s \in Series :
             login_type[s] \in {"open", "protected", "eth"} =>
                /\ InSeq(s, open_series) <=> login_type[s] = "open"
                /\ InSeq(s, protected_series) <=> login_type[s] = "protected"
                /\ InSeq(s, eth_series) <=> login_type[s] = "eth"
    /\ \A s \in Series :
          Cardinality({ph \in Phases : <<ph, s>> \in started}) <= 1

\* C29: the items of a collection are processed in the Eth phase only after
\* login_eth returned True, and only after the metadata of that collection
\* was fetched again in that phase.
C29_RefetchBeforeItems ==
    /\ \A s \in Series :
          <<"eth", s>> \in started =>
             /\ eth_success = "True"
             /\ s \in refetched
    /\ (mpc = "eth_loop" /\ stage # "none") => cur \in refetched
    /\ refetched # {} => ethLoginRuns = 1

\* an EthRequired collection of two items is in its transfers in the Eth
\* phase, after its metadata was fetched again
C29_Witness ==
    /\ mpc = "eth_loop"
    /\ stage = "transfer"
    /\ login_type[cur] = "eth"
    /\ Len(ist) = 2
    /\ cur \in refetched

\* C22: at every moment of a run at most 5 transfers, at most 10 item
\* fetches (process_entry) and at most 10 size probes are in flight, and the
\* capacity of the transfers is strictly below the other two.
C22_InFlightBounds ==
    /\ stage = "transfer" => Cardinality(InFlight) <= 5
    /\ stage = "fetch" => Cardinality(InFlight) <= 10
    /\ stage = "probe" => Cardinality(InFlight) <= 10
    /\ Cap("transfer") < Cap("fetch")
    /\ Cap("transfer") < Cap("probe")

\* five transfers of a Protected series are in flight and a sixth entry
\* waits for a slot
C22_Witness ==
    /\ mpc = "prot_dl"
    /\ stage = "transfer"
    /\ Cardinality(InFlight) = 5
    /\ \E i \in DOMAIN ist : ist[i] = "todo"

(***************************************************************************)
(* Claims about download_video_subtitles_and_maybe_audio                   *)
(***************************************************************************)
Configured == {subtitles[k] : k \in DOMAIN subtitles}

\* the configured turns of the loop whose language the item has
PresentTurns == {k \in DOMAIN subtitles : subtitles[k] \in subtitle_sources}

LacksConfigured == \E l \in Configured : l \notin subtitle_sources

SubtitleUrls ==
    {calls[k].url : k \in {j \in DOMAIN calls : calls[j].url[1] = "subtitle"}}

\* C16: in a transfer of an item with a media url, whose requests all
\* succeed, the function returns after the transfer of the media file and
\* of the subtitle of exactly the configured languages that the item's
\* subtitle map holds; a configured language that the map lacks causes no
\* request and no error.
C16_SubtitleSkip ==
    /\ (vpc = "raised" /\ ~get_size) => (callFailed \/ media_url = NoUrl)
    /\ (vpc = "returned" /\ ~get_size) =>
          /\ calls[1] = [fn |-> "download_file", url |-> media_url,
                         path |-> Filename(media_url)]
          /\ SubtitleUrls =
                {<<"subtitle", l>> : l \in Configured \cap subtitle_sources}
          /\ Len(calls) = 1 + Cardinality(PresentTurns)
          /\ \A k \in DOMAIN calls : calls[k].fn = "download_file"

\* two languages are configured, the item has only one of them, and the
\* function returned after the media file and that one subtitle
C16_Witness ==
    /\ vpc = "returned"
    /\ ~get_size
    /\ Cardinality(Configured) = 2
    /\ LacksConfigured
    /\ Cardinality(SubtitleUrls) = 1
    /\ Len(calls) = 2

\* C35: the media url is the video source of the configured quality; the
\* audio source of the configured format is taken if and only if the item
\* has no video source at all (and has that format); with video sources the
\* audio source is never taken, and the request for the media file asks for
\* the url selected.
C35_MediaSelection ==
    vpc # "start" =>
       /\ media_url[1] = "video" <=> video_quality \in video_sources
       /\ media_url[1] = "video" => media_url[2] = video_quality
       /\ media_url[1] = "audio" <=>
             (video_sources = {} /\ audio_quality \in audio_sources)
       /\ media_url[1] = "audio" => media_url[2] = audio_quality
       /\ calls # <<>> => calls[1].url = media_url

\* an item without video sources was transferred from its audio source
C35_Witness ==
    /\ vpc = "returned"
    /\ ~get_size
    /\ video_sources = {}
    /\ media_url = <<"audio", audio_quality>>
    /\ calls[1].url = media_url

\* C36: the size probe persists nothing: with get_size no directory is
\* made and every request is a get_remote_file_size, which has no
\* destination path; and get_remote_file_size returns the total of
\* Content-Range when the response has one, else its Content-Length, else 0.
C36_ProbePersistsNothing ==
    get_size =>
       /\ ~made
       /\ \A k \in DOMAIN calls :
             calls[k].fn = "get_remote_file_size" /\ calls[k].path = "-"
       /\ probed # -1 =>
             probed = (IF headers.cr # -1 THEN headers.cr
                       ELSE IF headers.cl # -1 THEN headers.cl ELSE 0)

\* two sizes were asked for: the first answer had a Content-Range of two
\* bytes, the second only a Content-Length
C36_Witness ==
    /\ get_size
    /\ vpc = "returned"
    /\ Len(calls) = 2
    /\ headers = [cr |-> -1, cl |-> 1]
    /\ probed = 1
    /\ filesize = 3

RECURSIVE SubtitleSizes(_)
SubtitleSizes(K) ==
    IF K = {} THEN 0
    ELSE LET k == CHOOSE x \in K : TRUE
         IN remote_size[subtitles[k]] + SubtitleSizes(K \ {k})

\* C37: the size the probe returns for an item, when every answer carried
\* the size of the file asked for, is the size of the media file plus the
\* size of each subtitle file that the transfer will fetch.
C37_AggregateSize ==
    (get_size /\ vpc = "returned" /\ exact) =>
       filesize = remote_size["media"] + SubtitleSizes(PresentTurns)

PagedSeries == {s \in 1..(cIdx - 1) : cTypes[s] # "eth"}

\* C30: for a first entry of type NotAllowed get_series_type returns "eth"
\* at once: it opens no page, navigates nowhere and leaves the click
\* counter as it was; pages, navigations and clicks come only from the
\* other series.
C30_NotAllowedImmediate ==
    cpc = "loop" =>
       /\ ~cPageOpen
       /\ cPages = Cardinality(PagedSeries)
       /\ cNavs = Cardinality(PagedSeries)
       /\ counter = 3 * Cardinality(PagedSeries)

\* the second series was typed "eth" after a series that took a page, a
\* navigation and three clicks
C30_Witness ==
    /\ cpc = "loop"
    /\ cIdx = 3
    /\ cTypes[1] = "open"
    /\ cTypes[2] = "eth"
    /\ counter = 3

\* the loop is over, by its end, by exit() or by an exception
\* C31: the value get_series_type returns is that of the wait that completed
\* first: "open" when the Download wait did, "protected" when the Verify wait
\* did, also when the other control shows up before the value is computed.
C31_FirstCompletionWins ==
    cpc = "closing" =>
       /\ (wtask["download"] = "visible" /\ wtask["verify"] = "cancelled")
             => cResult = "open"
       /\ (wtask["verify"] = "visible" /\ wtask["download"] = "cancelled")
             => cResult = "protected"

\* C32: once asyncio.wait has returned, and so when get_series_type returns,
\* no wait task is pending: one of them is done, by its control or by its
\* timeout, and one that was still pending is cancelled.
C32_LoserCancelled ==
    /\ cpc \in {"check_download", "check_verify", "closing"} =>
          /\ \A b \in Controls : wtask[b] \in {"visible", "timeout", "cancelled"}
          /\ \E b \in Controls : wtask[b] \in {"visible", "timeout"}
    /\ cpc \in {"loop", "exited", "raised"} => wtask = NoTasks

\* get_series_type is about to return after the Download wait ran into its
\* timeout and the Verify wait was cancelled
C32_Witness ==
    /\ cpc = "closing"
    /\ wtask["download"] = "timeout"
    /\ wtask["verify"] = "cancelled"

CTerminated == cpc \in {"exited", "raised"} \/ (cpc = "loop" /\ cIdx > cN)

\* a step from the end of a call whose waits ended with nothing visible
C18_Step ==
    (cpc = "closing" /\ visible = {}) =>
       \/ UNCHANGED varsC
       \/ /\ cTypes' = [cTypes EXCEPT ![cIdx] = "none"]
          /\ cIdx' = cIdx + 1
          /\ cpc' = "loop"

C34_OneLoginAtATime ==
    Cardinality({s \in Series : pl[s] = "form"}) <= 1

(***************************************************************************)
(* Claims about login_eth                                                  *)
(***************************************************************************)
\* C27: login_eth returns True only for a landing url whose host is
\* video.ethz.ch, and False for a landing url on every other host, also one
\* whose text merely begins with "https://video.ethz.ch".
C27_LandingHost ==
    epc = "returned" =>
       (eResult = "True" <=> Host(eUrl) = <<"video.ethz.ch">>)

(***************************************************************************)
(* Claims about the logins of a Protected series                           *)
(***************************************************************************)
\* C21: for a Protected series without credentials in the urls file, the
\* user is asked for a username at most once and for a password at most
\* once in a run; what was typed is kept on the series and every later call
\* of login_protected, the per-entry ones included, uses it without asking.
C21_PromptedOnce ==
    pUsername # "config" => (pUserPrompts <= 1 /\ pPwPrompts <= 1)

\* C26: a Protected series is in protected_series_logged_in only if the
\* portal accepted its credentials; a series whose credentials were rejected
\* is not in it.
C26_LoggedInMeansAccepted ==
    pStage = "download" => pAccepted[0] = "yes"

\* C28: once login_protected has submitted the credentials in the mode with
\* one login per series (eth_success truthy), nothing holds the password any
\* more: neither the local PASSWORD nor series["password"].
C28_PasswordDiscarded ==
    (pEthSuccess /\ pCall[0] = "series") =>
       (pPASSWORD[0] = "unbound" /\ pPassword = "None")

(***************************************************************************)
(* Claims about the start of main                                          *)
(***************************************************************************)
\* C23: a run that begins without a urls file and without a quick add stops
\* with an error: it never gets as far as fetching the metadata of a series,
\* classifying one, or the phases with their logins.
C23_MissingUrlsFatal ==
    (sMissing /\ quick_add = "None") =>
       /\ spc \notin {"metadata", "classify", "phases"}
       /\ sFetches = 0
       /\ sClassified = {}

\* C25: a series whose metadata fetch failed, or whose metadata holds no
\* entries, never ends the run: it is passed over and the loop goes on to
\* the series behind it.
C25_BadSeriesSkipped ==
    sEnd \notin {"TypeError", "no_videos"}

(***************************************************************************)
(* Claims about SharedCounter                                              *)
(***************************************************************************)
RECURSIVE SumN(_)
SumN(S) ==
    IF S = {} THEN 0
    ELSE LET i == CHOOSE x \in S : TRUE IN kN[i] + SumN(S \ {i})

\* the calls inside `async with self.lock`, and those past self.value += n
InLock == {i \in 1..kCalls : kpc[i] \in {"add", "display", "release"}}
Added == {i \in 1..kCalls : kpc[i] \in {"display", "release", "done"}}

\* C33: at most one increment call is inside the lock at a time, self.value
\* is the sum of the n of the calls that have added theirs (so no update is
\* lost, and the value is the sum of all once all calls are over), display
\* never shows more than the value, and the value never goes down.
C33_CounterExclusive ==
    /\ [](Cardinality(InLock) <= 1)
    /\ [](value = SumN(Added))
    /\ [](kShown <= value)
    /\ [][value' >= value]_vars

\* three calls are over, one of which had to wait for the lock, and the
\* value is the sum of their n
C33_Witness ==
    /\ kCalls = 3
    /\ \A i \in 1..kCalls : kpc[i] = "done"
    /\ value = SumN(1..kCalls)
    /\ value >= 4

(***************************************************************************)
(* Specifications                                                          *)
(***************************************************************************)
\* one call of gather_with_concurrency; download_file and main stay idle
InitGather ==
    /\ gN \in 1..MaxCap
    /\ gM \in 0..MaxTasks
    /\ gpc = [i \in 1..gM |-> "created"]
    /\ semValue = SemInit(gN)
    /\ semWaiters = <<>>
    /\ outcome = [i \in 1..gM |-> [kind |-> "pending", of |-> 0]]
    /\ doneOrder = <<>>
    /\ gReturned = FALSE
    /\ gResults = <<>>
    /\ remote = <<>>
    /\ fexists = FALSE
    /\ fdata = <<>>
    /\ dpc = "idle"
    /\ dCalls = 0
    /\ srv = "ranges"
    /\ start_byte = 0
    /\ rangeSent = FALSE
    /\ resp = NoResponse
    /\ total_size = 0
    /\ mode = "none"
    /\ rest = <<>>
    /\ dOpened = FALSE
    /\ dWrites = 0
    /\ f0exists = FALSE
    /\ f0data = <<>>
    /\ nSeries = 0
    /\ page = <<>>
    /\ username = <<>>
    /\ nitems = <<>>
    /\ mpc = "idle"
    /\ classIdx = 1
    /\ login_type = <<>>
    /\ open_series = <<>>
    /\ protected_series = <<>>
    /\ eth_series = <<>>
    /\ eth_success = "unset"
    /\ pl = <<>>
    /\ protected_series_logged_in = <<>>
    /\ pos = 0
    /\ cur = 0
    /\ stage = "none"
    /\ ist = <<>>
    /\ videos_data = <<>>
    /\ userPrompts = 0
    /\ pwPrompts = 0
    /\ ethLoginRuns = 0
    /\ protLoginRuns = <<>>
    /\ started = {}
    /\ finished = {}
    /\ raisedAt = "-"
    /\ refetched = {}
    /\ video_sources = {}
    /\ audio_sources = {}
    /\ subtitle_sources = {}
    /\ video_quality = "-"
    /\ audio_quality = "-"
    /\ subtitles = <<>>
    /\ get_size = FALSE
    /\ vpc = "idle"
    /\ media_url = NoUrl
    /\ subIdx = 0
    /\ calls = <<>>
    /\ callFailed = FALSE
    /\ cN = 0
    /\ cIdx = 1
    /\ cTypes = <<>>
    /\ cpc = "idle"
    /\ cShows = {}
    /\ visible = {}
    /\ wtask = NoTasks
    /\ cResult = "-"
    /\ cPageOpen = FALSE
    /\ counter = 0
    /\ cPages = 0
    /\ cNavs = 0
    /\ epc = "idle"
    /\ eArgUser = FALSE
    /\ eStdin = FALSE
    /\ eUrl = <<>>
    /\ eUSERNAME = "unbound"
    /\ ePASSWORD = "unbound"
    /\ eResult = "-"
    /\ eUserPrompts = 0
    /\ ePwPrompts = 0
    /\ pUsername = "None"
    /\ pPassword = "None"
    /\ pEthSuccess = FALSE
    /\ pEntries = 0
    /\ pStage = "idle"
    /\ pCall = <<>>
    /\ pPASSWORD = <<>>
    /\ pAccepted = <<>>
    /\ pUserPrompts = 0
    /\ pPwPrompts = 0
    /\ spc = "idle"
    /\ sCfgFile = FALSE
    /\ sCwdFile = FALSE
    /\ sCfgUrls = 0
    /\ sCwdUrls = 0
    /\ sMissing = FALSE
    /\ quick_add = "None"
    /\ series_urls = 0
    /\ sMeta = <<>>
    /\ sIdx = 0
    /\ sClassified = {}
    /\ sFetches = 0
    /\ sLog = {}
    /\ sEnd = "-"
    /\ kCalls = 0
    /\ kN = <<>>
    /\ kpc = <<>>
    /\ value = 0
    /\ kLocked = FALSE
    /\ kWaiters = <<>>
    /\ kShown = 0
    /\ remote_size = [k \in {"media"} \cup Languages |-> 1]
    /\ filesize = 0
    /\ made = FALSE
    /\ headers = [cr |-> -1, cl |-> -1]
    /\ probed = -1
    /\ exact = TRUE

\* calls of download_file; gather_with_concurrency and main stay idle
InitDownload ==
    /\ remote \in SeqsUpTo(Bytes, MaxT)
    /\ fexists \in BOOLEAN
    /\ fdata \in {SubSeq(remote, 1, k) : k \in 0..Len(remote)}
    /\ fexists = FALSE => fdata = <<>>
    /\ dpc = "idle"
    /\ dCalls = 0
    /\ srv = "ranges"
    /\ start_byte = 0
    /\ rangeSent = FALSE
    /\ resp = NoResponse
    /\ total_size = 0
    /\ mode = "none"
    /\ rest = <<>>
    /\ dOpened = FALSE
    /\ dWrites = 0
    /\ f0exists = fexists
    /\ f0data = fdata
    /\ gN = 1
    /\ gM = 0
    /\ gpc = <<>>
    /\ semValue = 1
    /\ semWaiters = <<>>
    /\ outcome = <<>>
    /\ doneOrder = <<>>
    /\ gReturned = FALSE
    /\ gResults = <<>>
    /\ nSeries = 0
    /\ page = <<>>
    /\ username = <<>>
    /\ nitems = <<>>
    /\ mpc = "idle"
    /\ classIdx = 1
    /\ login_type = <<>>
    /\ open_series = <<>>
    /\ protected_series = <<>>
    /\ eth_series = <<>>
    /\ eth_success = "unset"
    /\ pl = <<>>
    /\ protected_series_logged_in = <<>>
    /\ pos = 0
    /\ cur = 0
    /\ stage = "none"
    /\ ist = <<>>
    /\ videos_data = <<>>
    /\ userPrompts = 0
    /\ pwPrompts = 0
    /\ ethLoginRuns = 0
    /\ protLoginRuns = <<>>
    /\ started = {}
    /\ finished = {}
    /\ raisedAt = "-"
    /\ refetched = {}
    /\ video_sources = {}
    /\ audio_sources = {}
    /\ subtitle_sources = {}
    /\ video_quality = "-"
    /\ audio_quality = "-"
    /\ subtitles = <<>>
    /\ get_size = FALSE
    /\ vpc = "idle"
    /\ media_url = NoUrl
    /\ subIdx = 0
    /\ calls = <<>>
    /\ callFailed = FALSE
    /\ cN = 0
    /\ cIdx = 1
    /\ cTypes = <<>>
    /\ cpc = "idle"
    /\ cShows = {}
    /\ visible = {}
    /\ wtask = NoTasks
    /\ cResult = "-"
    /\ cPageOpen = FALSE
    /\ counter = 0
    /\ cPages = 0
    /\ cNavs = 0
    /\ epc = "idle"
    /\ eArgUser = FALSE
    /\ eStdin = FALSE
    /\ eUrl = <<>>
    /\ eUSERNAME = "unbound"
    /\ ePASSWORD = "unbound"
    /\ eResult = "-"
    /\ eUserPrompts = 0
    /\ ePwPrompts = 0
    /\ pUsername = "None"
    /\ pPassword = "None"
    /\ pEthSuccess = FALSE
    /\ pEntries = 0
    /\ pStage = "idle"
    /\ pCall = <<>>
    /\ pPASSWORD = <<>>
    /\ pAccepted = <<>>
    /\ pUserPrompts = 0
    /\ pPwPrompts = 0
    /\ spc = "idle"
    /\ sCfgFile = FALSE
    /\ sCwdFile = FALSE
    /\ sCfgUrls = 0
    /\ sCwdUrls = 0
    /\ sMissing = FALSE
    /\ quick_add = "None"
    /\ series_urls = 0
    /\ sMeta = <<>>
    /\ sIdx = 0
    /\ sClassified = {}
    /\ sFetches = 0
    /\ sLog = {}
    /\ sEnd = "-"
    /\ kCalls = 0
    /\ kN = <<>>
    /\ kpc = <<>>
    /\ value = 0
    /\ kLocked = FALSE
    /\ kWaiters = <<>>
    /\ kShown = 0
    /\ remote_size = [k \in {"media"} \cup Languages |-> 1]
    /\ filesize = 0
    /\ made = FALSE
    /\ headers = [cr |-> -1, cl |-> -1]
    /\ probed = -1
    /\ exact = TRUE

\* one run of main; gather_with_concurrency and download_file stay idle
InitMain ==
    /\ nSeries \in 0..MaxSeries
    /\ page = [s \in 1..nSeries |-> "unread"]
    /\ username = [s \in 1..nSeries |-> "none"]
    /\ nitems = [s \in 1..nSeries |-> 0]
    /\ mpc = "classify"
    /\ classIdx = 1
    /\ login_type = [s \in 1..nSeries |-> "unset"]
    /\ open_series = <<>>
    /\ protected_series = <<>>
    /\ eth_series = <<>>
    /\ eth_success = "unset"
    /\ pl = [s \in 1..nSeries |-> "-"]
    /\ protected_series_logged_in = <<>>
    /\ pos = 0
    /\ cur = 0
    /\ stage = "none"
    /\ ist = <<>>
    /\ videos_data = <<>>
    /\ userPrompts = 0
    /\ pwPrompts = 0
    /\ ethLoginRuns = 0
    /\ protLoginRuns = [s \in 1..nSeries |-> 0]
    /\ started = {}
    /\ finished = {}
    /\ raisedAt = "-"
    /\ refetched = {}
    /\ gN = 1
    /\ gM = 0
    /\ gpc = <<>>
    /\ semValue = 1
    /\ semWaiters = <<>>
    /\ outcome = <<>>
    /\ doneOrder = <<>>
    /\ gReturned = FALSE
    /\ gResults = <<>>
    /\ remote = <<>>
    /\ fexists = FALSE
    /\ fdata = <<>>
    /\ dpc = "idle"
    /\ dCalls = 0
    /\ srv = "ranges"
    /\ start_byte = 0
    /\ rangeSent = FALSE
    /\ resp = NoResponse
    /\ total_size = 0
    /\ mode = "none"
    /\ rest = <<>>
    /\ dOpened = FALSE
    /\ dWrites = 0
    /\ f0exists = FALSE
    /\ f0data = <<>>
    /\ video_sources = {}
    /\ audio_sources = {}
    /\ subtitle_sources = {}
    /\ video_quality = "-"
    /\ audio_quality = "-"
    /\ subtitles = <<>>
    /\ get_size = FALSE
    /\ vpc = "idle"
    /\ media_url = NoUrl
    /\ subIdx = 0
    /\ calls = <<>>
    /\ callFailed = FALSE
    /\ cN = 0
    /\ cIdx = 1
    /\ cTypes = <<>>
    /\ cpc = "idle"
    /\ cShows = {}
    /\ visible = {}
    /\ wtask = NoTasks
    /\ cResult = "-"
    /\ cPageOpen = FALSE
    /\ counter = 0
    /\ cPages = 0
    /\ cNavs = 0
    /\ epc = "idle"
    /\ eArgUser = FALSE
    /\ eStdin = FALSE
    /\ eUrl = <<>>
    /\ eUSERNAME = "unbound"
    /\ ePASSWORD = "unbound"
    /\ eResult = "-"
    /\ eUserPrompts = 0
    /\ ePwPrompts = 0
    /\ pUsername = "None"
    /\ pPassword = "None"
    /\ pEthSuccess = FALSE
    /\ pEntries = 0
    /\ pStage = "idle"
    /\ pCall = <<>>
    /\ pPASSWORD = <<>>
    /\ pAccepted = <<>>
    /\ pUserPrompts = 0
    /\ pPwPrompts = 0
    /\ spc = "idle"
    /\ sCfgFile = FALSE
    /\ sCwdFile = FALSE
    /\ sCfgUrls = 0
    /\ sCwdUrls = 0
    /\ sMissing = FALSE
    /\ quick_add = "None"
    /\ series_urls = 0
    /\ sMeta = <<>>
    /\ sIdx = 0
    /\ sClassified = {}
    /\ sFetches = 0
    /\ sLog = {}
    /\ sEnd = "-"
    /\ kCalls = 0
    /\ kN = <<>>
    /\ kpc = <<>>
    /\ value = 0
    /\ kLocked = FALSE
    /\ kWaiters = <<>>
    /\ kShown = 0
    /\ remote_size = [k \in {"media"} \cup Languages |-> 1]
    /\ filesize = 0
    /\ made = FALSE
    /\ headers = [cr |-> -1, cl |-> -1]
    /\ probed = -1
    /\ exact = TRUE

\* one call of download_video_subtitles_and_maybe_audio on the metadata of
\* one item under one configuration; everything else stays idle
InitMedia ==
    /\ video_sources \in SUBSET Qualities
    /\ audio_sources \in SUBSET AudioFormats
    /\ subtitle_sources \in SUBSET Languages
    /\ video_quality \in Qualities
    /\ audio_quality \in AudioFormats
    /\ subtitles \in SeqsUpTo(Languages, MaxSubs)
    /\ get_size \in BOOLEAN
    /\ vpc = "start"
    /\ media_url = NoUrl
    /\ subIdx = 0
    /\ calls = <<>>
    /\ callFailed = FALSE
    /\ gN = 1
    /\ gM = 0
    /\ gpc = <<>>
    /\ semValue = 1
    /\ semWaiters = <<>>
    /\ outcome = <<>>
    /\ doneOrder = <<>>
    /\ gReturned = FALSE
    /\ gResults = <<>>
    /\ remote = <<>>
    /\ fexists = FALSE
    /\ fdata = <<>>
    /\ dpc = "idle"
    /\ dCalls = 0
    /\ srv = "ranges"
    /\ start_byte = 0
    /\ rangeSent = FALSE
    /\ resp = NoResponse
    /\ total_size = 0
    /\ mode = "none"
    /\ rest = <<>>
    /\ dOpened = FALSE
    /\ dWrites = 0
    /\ f0exists = FALSE
    /\ f0data = <<>>
    /\ nSeries = 0
    /\ page = <<>>
    /\ username = <<>>
    /\ nitems = <<>>
    /\ mpc = "idle"
    /\ classIdx = 1
    /\ login_type = <<>>
    /\ open_series = <<>>
    /\ protected_series = <<>>
    /\ eth_series = <<>>
    /\ eth_success = "unset"
    /\ pl = <<>>
    /\ protected_series_logged_in = <<>>
    /\ pos = 0
    /\ cur = 0
    /\ stage = "none"
    /\ ist = <<>>
    /\ videos_data = <<>>
    /\ userPrompts = 0
    /\ pwPrompts = 0
    /\ ethLoginRuns = 0
    /\ protLoginRuns = <<>>
    /\ started = {}
    /\ finished = {}
    /\ raisedAt = "-"
    /\ refetched = {}
    /\ cN = 0
    /\ cIdx = 1
    /\ cTypes = <<>>
    /\ cpc = "idle"
    /\ cShows = {}
    /\ visible = {}
    /\ wtask = NoTasks
    /\ cResult = "-"
    /\ cPageOpen = FALSE
    /\ counter = 0
    /\ cPages = 0
    /\ cNavs = 0
    /\ epc = "idle"
    /\ eArgUser = FALSE
    /\ eStdin = FALSE
    /\ eUrl = <<>>
    /\ eUSERNAME = "unbound"
    /\ ePASSWORD = "unbound"
    /\ eResult = "-"
    /\ eUserPrompts = 0
    /\ ePwPrompts = 0
    /\ pUsername = "None"
    /\ pPassword = "None"
    /\ pEthSuccess = FALSE
    /\ pEntries = 0
    /\ pStage = "idle"
    /\ pCall = <<>>
    /\ pPASSWORD = <<>>
    /\ pAccepted = <<>>
    /\ pUserPrompts = 0
    /\ pPwPrompts = 0
    /\ spc = "idle"
    /\ sCfgFile = FALSE
    /\ sCwdFile = FALSE
    /\ sCfgUrls = 0
    /\ sCwdUrls = 0
    /\ sMissing = FALSE
    /\ quick_add = "None"
    /\ series_urls = 0
    /\ sMeta = <<>>
    /\ sIdx = 0
    /\ sClassified = {}
    /\ sFetches = 0
    /\ sLog = {}
    /\ sEnd = "-"
    /\ kCalls = 0
    /\ kN = <<>>
    /\ kpc = <<>>
    /\ value = 0
    /\ kLocked = FALSE
    /\ kWaiters = <<>>
    /\ kShown = 0
    /\ remote_size = [k \in {"media"} \cup Languages |-> 1]
    /\ filesize = 0
    /\ made = FALSE
    /\ headers = [cr |-> -1, cl |-> -1]
    /\ probed = -1
    /\ exact = TRUE

\* the classification loop over the series of the urls file; everything
\* else stays idle
InitClassify ==
    /\ cN \in 0..MaxSeries
    /\ cIdx = 1
    /\ cTypes = [s \in 1..cN |-> "unset"]
    /\ cpc = "loop"
    /\ cShows = {}
    /\ visible = {}
    /\ wtask = NoTasks
    /\ cResult = "-"
    /\ cPageOpen = FALSE
    /\ counter = 0
    /\ cPages = 0
    /\ cNavs = 0
    /\ gN = 1
    /\ gM = 0
    /\ gpc = <<>>
    /\ semValue = 1
    /\ semWaiters = <<>>
    /\ outcome = <<>>
    /\ doneOrder = <<>>
    /\ gReturned = FALSE
    /\ gResults = <<>>
    /\ remote = <<>>
    /\ fexists = FALSE
    /\ fdata = <<>>
    /\ dpc = "idle"
    /\ dCalls = 0
    /\ srv = "ranges"
    /\ start_byte = 0
    /\ rangeSent = FALSE
    /\ resp = NoResponse
    /\ total_size = 0
    /\ mode = "none"
    /\ rest = <<>>
    /\ dOpened = FALSE
    /\ dWrites = 0
    /\ f0exists = FALSE
    /\ f0data = <<>>
    /\ nSeries = 0
    /\ page = <<>>
    /\ username = <<>>
    /\ nitems = <<>>
    /\ mpc = "idle"
    /\ classIdx = 1
    /\ login_type = <<>>
    /\ open_series = <<>>
    /\ protected_series = <<>>
    /\ eth_series = <<>>
    /\ eth_success = "unset"
    /\ pl = <<>>
    /\ protected_series_logged_in = <<>>
    /\ pos = 0
    /\ cur = 0
    /\ stage = "none"
    /\ ist = <<>>
    /\ videos_data = <<>>
    /\ userPrompts = 0
    /\ pwPrompts = 0
    /\ ethLoginRuns = 0
    /\ protLoginRuns = <<>>
    /\ started = {}
    /\ finished = {}
    /\ raisedAt = "-"
    /\ refetched = {}
    /\ video_sources = {}
    /\ audio_sources = {}
    /\ subtitle_sources = {}
    /\ video_quality = "-"
    /\ audio_quality = "-"
    /\ subtitles = <<>>
    /\ get_size = FALSE
    /\ vpc = "idle"
    /\ media_url = NoUrl
    /\ subIdx = 0
    /\ calls = <<>>
    /\ callFailed = FALSE
    /\ epc = "idle"
    /\ eArgUser = FALSE
    /\ eStdin = FALSE
    /\ eUrl = <<>>
    /\ eUSERNAME = "unbound"
    /\ ePASSWORD = "unbound"
    /\ eResult = "-"
    /\ eUserPrompts = 0
    /\ ePwPrompts = 0
    /\ pUsername = "None"
    /\ pPassword = "None"
    /\ pEthSuccess = FALSE
    /\ pEntries = 0
    /\ pStage = "idle"
    /\ pCall = <<>>
    /\ pPASSWORD = <<>>
    /\ pAccepted = <<>>
    /\ pUserPrompts = 0
    /\ pPwPrompts = 0
    /\ spc = "idle"
    /\ sCfgFile = FALSE
    /\ sCwdFile = FALSE
    /\ sCfgUrls = 0
    /\ sCwdUrls = 0
    /\ sMissing = FALSE
    /\ quick_add = "None"
    /\ series_urls = 0
    /\ sMeta = <<>>
    /\ sIdx = 0
    /\ sClassified = {}
    /\ sFetches = 0
    /\ sLog = {}
    /\ sEnd = "-"
    /\ kCalls = 0
    /\ kN = <<>>
    /\ kpc = <<>>
    /\ value = 0
    /\ kLocked = FALSE
    /\ kWaiters = <<>>
    /\ kShown = 0
    /\ remote_size = [k \in {"media"} \cup Languages |-> 1]
    /\ filesize = 0
    /\ made = FALSE
    /\ headers = [cr |-> -1, cl |-> -1]
    /\ probed = -1
    /\ exact = TRUE

\* one run of main over a single series; the other machines stay idle
InitBatch ==
    /\ nSeries = 1
    /\ page = [s \in 1..nSeries |-> "unread"]
    /\ username = [s \in 1..nSeries |-> "none"]
    /\ nitems = [s \in 1..nSeries |-> 0]
    /\ mpc = "classify"
    /\ classIdx = 1
    /\ login_type = [s \in 1..nSeries |-> "unset"]
    /\ open_series = <<>>
    /\ protected_series = <<>>
    /\ eth_series = <<>>
    /\ eth_success = "unset"
    /\ pl = [s \in 1..nSeries |-> "-"]
    /\ protected_series_logged_in = <<>>
    /\ pos = 0
    /\ cur = 0
    /\ stage = "none"
    /\ ist = <<>>
    /\ videos_data = <<>>
    /\ userPrompts = 0
    /\ pwPrompts = 0
    /\ ethLoginRuns = 0
    /\ protLoginRuns = [s \in 1..nSeries |-> 0]
    /\ started = {}
    /\ finished = {}
    /\ raisedAt = "-"
    /\ refetched = {}
    /\ gN = 1
    /\ gM = 0
    /\ gpc = <<>>
    /\ semValue = 1
    /\ semWaiters = <<>>
    /\ outcome = <<>>
    /\ doneOrder = <<>>
    /\ gReturned = FALSE
    /\ gResults = <<>>
    /\ remote = <<>>
    /\ fexists = FALSE
    /\ fdata = <<>>
    /\ dpc = "idle"
    /\ dCalls = 0
    /\ srv = "ranges"
    /\ start_byte = 0
    /\ rangeSent = FALSE
    /\ resp = NoResponse
    /\ total_size = 0
    /\ mode = "none"
    /\ rest = <<>>
    /\ dOpened = FALSE
    /\ dWrites = 0
    /\ f0exists = FALSE
    /\ f0data = <<>>
    /\ video_sources = {}
    /\ audio_sources = {}
    /\ subtitle_sources = {}
    /\ video_quality = "-"
    /\ audio_quality = "-"
    /\ subtitles = <<>>
    /\ get_size = FALSE
    /\ vpc = "idle"
    /\ media_url = NoUrl
    /\ subIdx = 0
    /\ calls = <<>>
    /\ callFailed = FALSE
    /\ cN = 0
    /\ cIdx = 1
    /\ cTypes = <<>>
    /\ cpc = "idle"
    /\ cShows = {}
    /\ visible = {}
    /\ wtask = NoTasks
    /\ cResult = "-"
    /\ cPageOpen = FALSE
    /\ counter = 0
    /\ cPages = 0
    /\ cNavs = 0
    /\ epc = "idle"
    /\ eArgUser = FALSE
    /\ eStdin = FALSE
    /\ eUrl = <<>>
    /\ eUSERNAME = "unbound"
    /\ ePASSWORD = "unbound"
    /\ eResult = "-"
    /\ eUserPrompts = 0
    /\ ePwPrompts = 0
    /\ pUsername = "None"
    /\ pPassword = "None"
    /\ pEthSuccess = FALSE
    /\ pEntries = 0
    /\ pStage = "idle"
    /\ pCall = <<>>
    /\ pPASSWORD = <<>>
    /\ pAccepted = <<>>
    /\ pUserPrompts = 0
    /\ pPwPrompts = 0
    /\ spc = "idle"
    /\ sCfgFile = FALSE
    /\ sCwdFile = FALSE
    /\ sCfgUrls = 0
    /\ sCwdUrls = 0
    /\ sMissing = FALSE
    /\ quick_add = "None"
    /\ series_urls = 0
    /\ sMeta = <<>>
    /\ sIdx = 0
    /\ sClassified = {}
    /\ sFetches = 0
    /\ sLog = {}
    /\ sEnd = "-"
    /\ kCalls = 0
    /\ kN = <<>>
    /\ kpc = <<>>
    /\ value = 0
    /\ kLocked = FALSE
    /\ kWaiters = <<>>
    /\ kShown = 0
    /\ remote_size = [k \in {"media"} \cup Languages |-> 1]
    /\ filesize = 0
    /\ made = FALSE
    /\ headers = [cr |-> -1, cl |-> -1]
    /\ probed = -1
    /\ exact = TRUE

\* one call of login_eth; everything else stays idle
InitEthLogin ==
    /\ epc = "start"
    /\ eArgUser \in BOOLEAN
    /\ eStdin \in BOOLEAN
    /\ eUrl \in Urls
    /\ eUSERNAME = "unbound"
    /\ ePASSWORD = "unbound"
    /\ eResult = "-"
    /\ eUserPrompts = 0
    /\ ePwPrompts = 0
    /\ gN = 1
    /\ gM = 0
    /\ gpc = <<>>
    /\ semValue = 1
    /\ semWaiters = <<>>
    /\ outcome = <<>>
    /\ doneOrder = <<>>
    /\ gReturned = FALSE
    /\ gResults = <<>>
    /\ remote = <<>>
    /\ fexists = FALSE
    /\ fdata = <<>>
    /\ dpc = "idle"
    /\ dCalls = 0
    /\ srv = "ranges"
    /\ start_byte = 0
    /\ rangeSent = FALSE
    /\ resp = NoResponse
    /\ total_size = 0
    /\ mode = "none"
    /\ rest = <<>>
    /\ dOpened = FALSE
    /\ dWrites = 0
    /\ f0exists = FALSE
    /\ f0data = <<>>
    /\ nSeries = 0
    /\ page = <<>>
    /\ username = <<>>
    /\ nitems = <<>>
    /\ mpc = "idle"
    /\ classIdx = 1
    /\ login_type = <<>>
    /\ open_series = <<>>
    /\ protected_series = <<>>
    /\ eth_series = <<>>
    /\ eth_success = "unset"
    /\ pl = <<>>
    /\ protected_series_logged_in = <<>>
    /\ pos = 0
    /\ cur = 0
    /\ stage = "none"
    /\ ist = <<>>
    /\ videos_data = <<>>
    /\ userPrompts = 0
    /\ pwPrompts = 0
    /\ ethLoginRuns = 0
    /\ protLoginRuns = <<>>
    /\ started = {}
    /\ finished = {}
    /\ raisedAt = "-"
    /\ refetched = {}
    /\ video_sources = {}
    /\ audio_sources = {}
    /\ subtitle_sources = {}
    /\ video_quality = "-"
    /\ audio_quality = "-"
    /\ subtitles = <<>>
    /\ get_size = FALSE
    /\ vpc = "idle"
    /\ media_url = NoUrl
    /\ subIdx = 0
    /\ calls = <<>>
    /\ callFailed = FALSE
    /\ cN = 0
    /\ cIdx = 1
    /\ cTypes = <<>>
    /\ cpc = "idle"
    /\ cShows = {}
    /\ visible = {}
    /\ wtask = NoTasks
    /\ cResult = "-"
    /\ cPageOpen = FALSE
    /\ counter = 0
    /\ cPages = 0
    /\ cNavs = 0
    /\ pUsername = "None"
    /\ pPassword = "None"
    /\ pEthSuccess = FALSE
    /\ pEntries = 0
    /\ pStage = "idle"
    /\ pCall = <<>>
    /\ pPASSWORD = <<>>
    /\ pAccepted = <<>>
    /\ pUserPrompts = 0
    /\ pPwPrompts = 0
    /\ spc = "idle"
    /\ sCfgFile = FALSE
    /\ sCwdFile = FALSE
    /\ sCfgUrls = 0
    /\ sCwdUrls = 0
    /\ sMissing = FALSE
    /\ quick_add = "None"
    /\ series_urls = 0
    /\ sMeta = <<>>
    /\ sIdx = 0
    /\ sClassified = {}
    /\ sFetches = 0
    /\ sLog = {}
    /\ sEnd = "-"
    /\ kCalls = 0
    /\ kN = <<>>
    /\ kpc = <<>>
    /\ value = 0
    /\ kLocked = FALSE
    /\ kWaiters = <<>>
    /\ kShown = 0
    /\ remote_size = [k \in {"media"} \cup Languages |-> 1]
    /\ filesize = 0
    /\ made = FALSE
    /\ headers = [cr |-> -1, cl |-> -1]
    /\ probed = -1
    /\ exact = TRUE

\* one Protected series, with both credentials in the urls file or neither
\* (get_urls 1199-1216), after login_eth is over; everything else stays idle
InitProtected ==
    /\ pUsername \in {"None", "config"}
    /\ pPassword = pUsername
    /\ pEthSuccess \in BOOLEAN
    /\ pEntries \in 1..MaxItems
    /\ pStage = "login"
    /\ pCall = [c \in 0..pEntries |-> "idle"]
    /\ pPASSWORD = [c \in 0..pEntries |-> "unbound"]
    /\ pAccepted = [c \in 0..pEntries |-> "-"]
    /\ pUserPrompts = 0
    /\ pPwPrompts = 0
    /\ gN = 1
    /\ gM = 0
    /\ gpc = <<>>
    /\ semValue = 1
    /\ semWaiters = <<>>
    /\ outcome = <<>>
    /\ doneOrder = <<>>
    /\ gReturned = FALSE
    /\ gResults = <<>>
    /\ remote = <<>>
    /\ fexists = FALSE
    /\ fdata = <<>>
    /\ dpc = "idle"
    /\ dCalls = 0
    /\ srv = "ranges"
    /\ start_byte = 0
    /\ rangeSent = FALSE
    /\ resp = NoResponse
    /\ total_size = 0
    /\ mode = "none"
    /\ rest = <<>>
    /\ dOpened = FALSE
    /\ dWrites = 0
    /\ f0exists = FALSE
    /\ f0data = <<>>
    /\ nSeries = 0
    /\ page = <<>>
    /\ username = <<>>
    /\ nitems = <<>>
    /\ mpc = "idle"
    /\ classIdx = 1
    /\ login_type = <<>>
    /\ open_series = <<>>
    /\ protected_series = <<>>
    /\ eth_series = <<>>
    /\ eth_success = "unset"
    /\ pl = <<>>
    /\ protected_series_logged_in = <<>>
    /\ pos = 0
    /\ cur = 0
    /\ stage = "none"
    /\ ist = <<>>
    /\ videos_data = <<>>
    /\ userPrompts = 0
    /\ pwPrompts = 0
    /\ ethLoginRuns = 0
    /\ protLoginRuns = <<>>
    /\ started = {}
    /\ finished = {}
    /\ raisedAt = "-"
    /\ refetched = {}
    /\ video_sources = {}
    /\ audio_sources = {}
    /\ subtitle_sources = {}
    /\ video_quality = "-"
    /\ audio_quality = "-"
    /\ subtitles = <<>>
    /\ get_size = FALSE
    /\ vpc = "idle"
    /\ media_url = NoUrl
    /\ subIdx = 0
    /\ calls = <<>>
    /\ callFailed = FALSE
    /\ cN = 0
    /\ cIdx = 1
    /\ cTypes = <<>>
    /\ cpc = "idle"
    /\ cShows = {}
    /\ visible = {}
    /\ wtask = NoTasks
    /\ cResult = "-"
    /\ cPageOpen = FALSE
    /\ counter = 0
    /\ cPages = 0
    /\ cNavs = 0
    /\ epc = "idle"
    /\ eArgUser = FALSE
    /\ eStdin = FALSE
    /\ eUrl = <<>>
    /\ eUSERNAME = "unbound"
    /\ ePASSWORD = "unbound"
    /\ eResult = "-"
    /\ eUserPrompts = 0
    /\ ePwPrompts = 0
    /\ spc = "idle"
    /\ sCfgFile = FALSE
    /\ sCwdFile = FALSE
    /\ sCfgUrls = 0
    /\ sCwdUrls = 0
    /\ sMissing = FALSE
    /\ quick_add = "None"
    /\ series_urls = 0
    /\ sMeta = <<>>
    /\ sIdx = 0
    /\ sClassified = {}
    /\ sFetches = 0
    /\ sLog = {}
    /\ sEnd = "-"
    /\ kCalls = 0
    /\ kN = <<>>
    /\ kpc = <<>>
    /\ value = 0
    /\ kLocked = FALSE
    /\ kWaiters = <<>>
    /\ kShown = 0
    /\ remote_size = [k \in {"media"} \cup Languages |-> 1]
    /\ filesize = 0
    /\ made = FALSE
    /\ headers = [cr |-> -1, cl |-> -1]
    /\ probed = -1
    /\ exact = TRUE

\* main begins: each of the two urls files is there or not, with some url
\* lines in it; everything else stays idle
InitStartup ==
    /\ spc = "urls_file"
    /\ sCfgFile \in BOOLEAN
    /\ sCwdFile \in BOOLEAN
    /\ sCfgUrls \in (IF sCfgFile THEN 0..MaxSeries ELSE {0})
    /\ sCwdUrls \in (IF sCwdFile THEN 0..MaxSeries ELSE {0})
    /\ sMissing = (~sCfgFile /\ ~sCwdFile)
    /\ quick_add \in {"None", "valid", "invalid"}
    /\ series_urls = 0
    /\ sMeta = <<>>
    /\ sIdx = 0
    /\ sClassified = {}
    /\ sFetches = 0
    /\ sLog = {}
    /\ sEnd = "-"
    /\ gN = 1
    /\ gM = 0
    /\ gpc = <<>>
    /\ semValue = 1
    /\ semWaiters = <<>>
    /\ outcome = <<>>
    /\ doneOrder = <<>>
    /\ gReturned = FALSE
    /\ gResults = <<>>
    /\ remote = <<>>
    /\ fexists = FALSE
    /\ fdata = <<>>
    /\ dpc = "idle"
    /\ dCalls = 0
    /\ srv = "ranges"
    /\ start_byte = 0
    /\ rangeSent = FALSE
    /\ resp = NoResponse
    /\ total_size = 0
    /\ mode = "none"
    /\ rest = <<>>
    /\ dOpened = FALSE
    /\ dWrites = 0
    /\ f0exists = FALSE
    /\ f0data = <<>>
    /\ nSeries = 0
    /\ page = <<>>
    /\ username = <<>>
    /\ nitems = <<>>
    /\ mpc = "idle"
    /\ classIdx = 1
    /\ login_type = <<>>
    /\ open_series = <<>>
    /\ protected_series = <<>>
    /\ eth_series = <<>>
    /\ eth_success = "unset"
    /\ pl = <<>>
    /\ protected_series_logged_in = <<>>
    /\ pos = 0
    /\ cur = 0
    /\ stage = "none"
    /\ ist = <<>>
    /\ videos_data = <<>>
    /\ userPrompts = 0
    /\ pwPrompts = 0
    /\ ethLoginRuns = 0
    /\ protLoginRuns = <<>>
    /\ started = {}
    /\ finished = {}
    /\ raisedAt = "-"
    /\ refetched = {}
    /\ video_sources = {}
    /\ audio_sources = {}
    /\ subtitle_sources = {}
    /\ video_quality = "-"
    /\ audio_quality = "-"
    /\ subtitles = <<>>
    /\ get_size = FALSE
    /\ vpc = "idle"
    /\ media_url = NoUrl
    /\ subIdx = 0
    /\ calls = <<>>
    /\ callFailed = FALSE
    /\ cN = 0
    /\ cIdx = 1
    /\ cTypes = <<>>
    /\ cpc = "idle"
    /\ cShows = {}
    /\ visible = {}
    /\ wtask = NoTasks
    /\ cResult = "-"
    /\ cPageOpen = FALSE
    /\ counter = 0
    /\ cPages = 0
    /\ cNavs = 0
    /\ epc = "idle"
    /\ eArgUser = FALSE
    /\ eStdin = FALSE
    /\ eUrl = <<>>
    /\ eUSERNAME = "unbound"
    /\ ePASSWORD = "unbound"
    /\ eResult = "-"
    /\ eUserPrompts = 0
    /\ ePwPrompts = 0
    /\ pUsername = "None"
    /\ pPassword = "None"
    /\ pEthSuccess = FALSE
    /\ pEntries = 0
    /\ pStage = "idle"
    /\ pCall = <<>>
    /\ pPASSWORD = <<>>
    /\ pAccepted = <<>>
    /\ pUserPrompts = 0
    /\ pPwPrompts = 0
    /\ kCalls = 0
    /\ kN = <<>>
    /\ kpc = <<>>
    /\ value = 0
    /\ kLocked = FALSE
    /\ kWaiters = <<>>
    /\ kShown = 0
    /\ remote_size = [k \in {"media"} \cup Languages |-> 1]
    /\ filesize = 0
    /\ made = FALSE
    /\ headers = [cr |-> -1, cl |-> -1]
    /\ probed = -1
    /\ exact = TRUE

\* some calls of increment are about to run; everything else stays idle
InitCounter ==
    /\ kCalls \in 1..MaxIncs
    /\ kN \in [1..kCalls -> 1..MaxN]
    /\ kpc = [i \in 1..kCalls |-> "start"]
    /\ value = 0
    /\ kLocked = FALSE
    /\ kWaiters = <<>>
    /\ kShown = 0
    /\ gN = 1
    /\ gM = 0
    /\ gpc = <<>>
    /\ semValue = 1
    /\ semWaiters = <<>>
    /\ outcome = <<>>
    /\ doneOrder = <<>>
    /\ gReturned = FALSE
    /\ gResults = <<>>
    /\ remote = <<>>
    /\ fexists = FALSE
    /\ fdata = <<>>
    /\ dpc = "idle"
    /\ dCalls = 0
    /\ srv = "ranges"
    /\ start_byte = 0
    /\ rangeSent = FALSE
    /\ resp = NoResponse
    /\ total_size = 0
    /\ mode = "none"
    /\ rest = <<>>
    /\ dOpened = FALSE
    /\ dWrites = 0
    /\ f0exists = FALSE
    /\ f0data = <<>>
    /\ nSeries = 0
    /\ page = <<>>
    /\ username = <<>>
    /\ nitems = <<>>
    /\ mpc = "idle"
    /\ classIdx = 1
    /\ login_type = <<>>
    /\ open_series = <<>>
    /\ protected_series = <<>>
    /\ eth_series = <<>>
    /\ eth_success = "unset"
    /\ pl = <<>>
    /\ protected_series_logged_in = <<>>
    /\ pos = 0
    /\ cur = 0
    /\ stage = "none"
    /\ ist = <<>>
    /\ videos_data = <<>>
    /\ userPrompts = 0
    /\ pwPrompts = 0
    /\ ethLoginRuns = 0
    /\ protLoginRuns = <<>>
    /\ started = {}
    /\ finished = {}
    /\ raisedAt = "-"
    /\ refetched = {}
    /\ video_sources = {}
    /\ audio_sources = {}
    /\ subtitle_sources = {}
    /\ video_quality = "-"
    /\ audio_quality = "-"
    /\ subtitles = <<>>
    /\ get_size = FALSE
    /\ vpc = "idle"
    /\ media_url = NoUrl
    /\ subIdx = 0
    /\ calls = <<>>
    /\ callFailed = FALSE
    /\ cN = 0
    /\ cIdx = 1
    /\ cTypes = <<>>
    /\ cpc = "idle"
    /\ cShows = {}
    /\ visible = {}
    /\ wtask = NoTasks
    /\ cResult = "-"
    /\ cPageOpen = FALSE
    /\ counter = 0
    /\ cPages = 0
    /\ cNavs = 0
    /\ epc = "idle"
    /\ eArgUser = FALSE
    /\ eStdin = FALSE
    /\ eUrl = <<>>
    /\ eUSERNAME = "unbound"
    /\ ePASSWORD = "unbound"
    /\ eResult = "-"
    /\ eUserPrompts = 0
    /\ ePwPrompts = 0
    /\ pUsername = "None"
    /\ pPassword = "None"
    /\ pEthSuccess = FALSE
    /\ pEntries = 0
    /\ pStage = "idle"
    /\ pCall = <<>>
    /\ pPASSWORD = <<>>
    /\ pAccepted = <<>>
    /\ pUserPrompts = 0
    /\ pPwPrompts = 0
    /\ spc = "idle"
    /\ sCfgFile = FALSE
    /\ sCwdFile = FALSE
    /\ sCfgUrls = 0
    /\ sCwdUrls = 0
    /\ sMissing = FALSE
    /\ quick_add = "None"
    /\ series_urls = 0
    /\ sMeta = <<>>
    /\ sIdx = 0
    /\ sClassified = {}
    /\ sFetches = 0
    /\ sLog = {}
    /\ sEnd = "-"
    /\ remote_size = [k \in {"media"} \cup Languages |-> 1]
    /\ filesize = 0
    /\ made = FALSE
    /\ headers = [cr |-> -1, cl |-> -1]
    /\ probed = -1
    /\ exact = TRUE

\* one call with get_size=True, for an item whose files have some sizes;
\* everything else stays idle
InitProbe ==
    /\ video_sources \in SUBSET Qualities
    /\ audio_sources \in SUBSET AudioFormats
    /\ subtitle_sources \in SUBSET Languages
    /\ video_quality \in Qualities
    /\ audio_quality \in AudioFormats
    /\ subtitles \in SeqsUpTo(Languages, MaxSubs)
    /\ get_size = TRUE
    /\ vpc = "start"
    /\ media_url = NoUrl
    /\ subIdx = 0
    /\ calls = <<>>
    /\ callFailed = FALSE
    /\ remote_size \in [{"media"} \cup Languages -> 1..MaxSize]
    /\ \A l \in Languages \ subtitle_sources : remote_size[l] = 1
    /\ filesize = 0
    /\ made = FALSE
    /\ headers = NoHeaders
    /\ probed = -1
    /\ exact = TRUE
    /\ gN = 1
    /\ gM = 0
    /\ gpc = <<>>
    /\ semValue = 1
    /\ semWaiters = <<>>
    /\ outcome = <<>>
    /\ doneOrder = <<>>
    /\ gReturned = FALSE
    /\ gResults = <<>>
    /\ remote = <<>>
    /\ fexists = FALSE
    /\ fdata = <<>>
    /\ dpc = "idle"
    /\ dCalls = 0
    /\ srv = "ranges"
    /\ start_byte = 0
    /\ rangeSent = FALSE
    /\ resp = NoResponse
    /\ total_size = 0
    /\ mode = "none"
    /\ rest = <<>>
    /\ dOpened = FALSE
    /\ dWrites = 0
    /\ f0exists = FALSE
    /\ f0data = <<>>
    /\ nSeries = 0
    /\ page = <<>>
    /\ username = <<>>
    /\ nitems = <<>>
    /\ mpc = "idle"
    /\ classIdx = 1
    /\ login_type = <<>>
    /\ open_series = <<>>
    /\ protected_series = <<>>
    /\ eth_series = <<>>
    /\ eth_success = "unset"
    /\ pl = <<>>
    /\ protected_series_logged_in = <<>>
    /\ pos = 0
    /\ cur = 0
    /\ stage = "none"
    /\ ist = <<>>
    /\ videos_data = <<>>
    /\ userPrompts = 0
    /\ pwPrompts = 0
    /\ ethLoginRuns = 0
    /\ protLoginRuns = <<>>
    /\ started = {}
    /\ finished = {}
    /\ raisedAt = "-"
    /\ refetched = {}
    /\ cN = 0
    /\ cIdx = 1
    /\ cTypes = <<>>
    /\ cpc = "idle"
    /\ cShows = {}
    /\ visible = {}
    /\ wtask = NoTasks
    /\ cResult = "-"
    /\ cPageOpen = FALSE
    /\ counter = 0
    /\ cPages = 0
    /\ cNavs = 0
    /\ epc = "idle"
    /\ eArgUser = FALSE
    /\ eStdin = FALSE
    /\ eUrl = <<>>
    /\ eUSERNAME = "unbound"
    /\ ePASSWORD = "unbound"
    /\ eResult = "-"
    /\ eUserPrompts = 0
    /\ ePwPrompts = 0
    /\ pUsername = "None"
    /\ pPassword = "None"
    /\ pEthSuccess = FALSE
    /\ pEntries = 0
    /\ pStage = "idle"
    /\ pCall = <<>>
    /\ pPASSWORD = <<>>
    /\ pAccepted = <<>>
    /\ pUserPrompts = 0
    /\ pPwPrompts = 0
    /\ spc = "idle"
    /\ sCfgFile = FALSE
    /\ sCwdFile = FALSE
    /\ sCfgUrls = 0
    /\ sCwdUrls = 0
    /\ sMissing = FALSE
    /\ quick_add = "None"
    /\ series_urls = 0
    /\ sMeta = <<>>
    /\ sIdx = 0
    /\ sClassified = {}
    /\ sFetches = 0
    /\ sLog = {}
    /\ sEnd = "-"
    /\ kCalls = 0
    /\ kN = <<>>
    /\ kpc = <<>>
    /\ value = 0
    /\ kLocked = FALSE
    /\ kWaiters = <<>>
    /\ kShown = 0

SpecGather == InitGather /\ [][NextG]_vars

\* the event loop runs every ready task, and every task's coroutine ends
FairGather == SpecGather /\ WF_vars(NextG)

SpecDownload == InitDownload /\ [][NextD]_vars

SpecMain == InitMain /\ [][NextM]_vars

SpecBatch == InitBatch /\ [][NextBatch]_vars

SpecMedia == InitMedia /\ [][NextV]_vars

SpecClassify == InitClassify /\ [][NextC]_vars

SpecEthLogin == InitEthLogin /\ [][NextE]_vars

SpecProtected == InitProtected /\ [][NextP]_vars

SpecStartup == InitStartup /\ [][NextS]_vars

\* the event loop runs every ready task and the timers of Playwright fire
FairClassify == SpecClassify /\ WF_vars(NextC)

SpecCounter == InitCounter /\ [][NextK]_vars

SpecProbe == InitProbe /\ [][NextV]_vars

=============================================================================
